---- MODULE Spec2Model ----
(***************************************************************************)
(* perseest: the hook chain (PerseestHooks) and the query pipeline         *)
(* (PerseestQuery.run) as a state machine.                                 *)
(*                                                                         *)
(* JavaScript is single threaded: the code between two awaits is one       *)
(* atomic step.  An action below is therefore one call of a synchronous    *)
(* method, or the part of an async function that runs from its call or     *)
(* from the settling of the promise it awaits up to its next await.        *)
(***************************************************************************)
EXTENDS Integers, Sequences, FiniteSets, TLC

\* Largest total number of callbacks held by the two sequences of the chain.
MaxHooks == 2
\* Largest number of add/flush calls made while one run is in flight.
MaxRace == 1
\* Longest query name tried.
MaxNameLen == 2
\* Most rows in a response of the executor.
MaxRows == 2
\* Largest rowCount in a response of the executor to a statement returning no rows.
MaxRowCount == 2
\* Longest column list given to the save query.
MaxCols == 2
\* The reads of the fields of one QueryParameters instance.
MaxReads == 2

(***************************************************************************)
(* Values                                                                  *)
(***************************************************************************)
\* undefined / null: an argument that was not given.
Null == "<undefined>"
\* The empty string: a falsy value that is nevertheless given.
EmptyStr == ""
\* A truthy string that is neither 'before' nor 'after' (hooks.run('doh')).
BadWhen == "doh"
\* A truthy value that is no function (the non-function hooks of the tests).
NotFn == "<not a function>"
\* A params object ({ a: 1, b: '2' } or a QueryParameters instance).
ParamsObj == "<params>"
\* Another params object, passed by another caller.
OtherParams == "<params 2>"

\* The callbacks the tests register: () => {}, sinon.fake.throws,
\* sinon.fake.resolves, sinon.fake.rejects.
HookFns == {"syncOk", "syncThrow", "asyncOk", "asyncReject"}

\* ['before', 'after'] of lines 38, 58, 88 (membership) and 44, 64, 89 (order).
BeforeAfter == <<"before", "after">>

SeqToSet(s) == {s[i] : i \in DOMAIN s}

\* JavaScript truthiness of the values above.
Truthy(v) == v \notin {Null, EmptyStr}

\* validate.isFunction
IsFunctionAny(v) == TRUE
IsFunction(v) == v \in HookFns

\* The names of static types (lines 126-134), and a name that is not there.
RegisteredTypes == {"singular", "multiple", "boolean"}
TypeNames == RegisteredTypes \cup {"nonexistent"}

\* static types = new QueryTypeMap([...]): each name with its transform.
DefaultTypeMap == [t \in RegisteredTypes |-> t]

\* The names of the default queries (Query.default()).
DefaultQueryNames == {"save", "fetch", "update", "delete"}

\* validate.isString
IsString(v) ==
  v \in {"before", "after", EmptyStr, BadWhen} \cup TypeNames \cup DefaultQueryNames

\* typeof v === 'object' (true of null as well)
TypeofObject(v) == v \in {Null, ParamsObj, OtherParams}

\* What calling the hook does before it returns: it returns a plain value,
\* throws, or returns a promise.
HookCall(h) ==
  CASE h = "syncOk" -> "value"
    [] h = "syncThrow" -> "throw"
    [] OTHER -> "promise"

\* How the promise returned by an asynchronous hook settles.
PromiseOutcome(h) == IF h = "asyncOk" THEN "resolve" ELSE "reject"

\* Whether the call h(params) of line 66 leaves the loops by an exception.
ThrowsSwallowed(ret) == FALSE
Throws(ret) == ret = "throw"

\* validate.isPromise(_) of PerseestHooks.run
IsPromiseNever(ret) == FALSE
IsPromise(ret) == ret = "promise"

\* Errors are flat records: where the error was raised, by which hook, and
\* whether conf.pgError2Error has been applied to it.
MkErr(src, h) == [src |-> src, h |-> h, norm |-> FALSE]
NoErr == MkErr("-", "-")
TypeErr == MkErr("TypeError", "-")
HookError(h) == MkErr("hook", h)

\* The error the executor rejects with, and the one a transform throws.
DbErr == MkErr("db", "-")
TransformErr == MkErr("transform", "-")

\* An observable step of a run.
Ev(e, t, h) == [ev |-> e, t |-> t, h |-> h]

\* Responses of the executor: { rows, rowCount }.
Rows == {"r1", "r2"}
MkRes(rows) == [rows |-> rows, rowCount |-> Len(rows)]
Responses == {MkRes(<<>>), MkRes(<<"r1">>), MkRes(<<"r1", "r2">>)}
NoRes == [rows |-> <<>>, rowCount |-> -1]

\* Values a transform returns: undefined, null, a boolean, an entity, a list.
MkVal(k, b, ents) == [k |-> k, b |-> b, ents |-> ents]
Unset == MkVal("unset", FALSE, <<>>)
Undefined == MkVal("undefined", FALSE, <<>>)
Threw == MkVal("threw", FALSE, <<>>)

VARIABLES
  conf,     \* the PerseestConfig fields the pipeline reads
  query,    \* the PerseestQuery fields other than its hooks
  hooks,    \* query.hooks: [before |-> this.before, after |-> this.after]
  added,    \* history: per sequence, the callbacks added since it was last flushed
  last,     \* history: the add/flush call the latest step made, if it was one
  runs,     \* the calls of run in flight or settled, by caller
  pure,     \* a call of a synchronous function: its arguments and its outcome
  entity,   \* an entity of the persistent class: its exists flag and properties
  types     \* PerseestQuery.types: the transform registered under each type name

vars == <<conf, query, hooks, added, last, runs, pure, entity, types>>

\* The callers of run: one entity, or two entities sharing a config.
OneCaller == {"c1"}
TwoCallers == {"c1", "c2"}
Callers == DOMAIN runs

\* No synchronous function is under examination.
\* No entity has been created.
NoEntity == [exists |-> FALSE, props |-> <<>>]
NoPure == [fn |-> "-"]

\* No statement has been generated.
NoStmt == [text |-> "-", of |-> Null]

NoCall == [op |-> "-", a1 |-> Null, a2 |-> Null, threw |-> FALSE]

\* History: no flush has emptied the sequence while the run was in flight.
NoFlush == [how |-> "-", arr |-> <<>>]

IdleRun ==
  [kind |-> "-", pc |-> "idle", a1 |-> Null, a2 |-> Null,
   t |-> "-", rest |-> <<>>, idx |-> 0, detached |-> FALSE, arr |-> <<>>,
   cur |-> "-", st |-> "-", err |-> NoErr, log |-> <<>>, raced |-> 0,
   snap |-> [before |-> <<>>, after |-> <<>>], flushed |-> FALSE,
   fl |-> [before |-> NoFlush, after |-> NoFlush],
   phase |-> "-", pquery |-> Null, stmt |-> NoStmt, res |-> NoRes, ret |-> Unset,
   value |-> Unset]

\* constructor () { this.before = []; this.after = [] }
NewHooks == [before |-> <<>>, after |-> <<>>]

\* this.row2Entity = row => row; this.pgError2Error = res => res
DefaultConf == [row2Entity |-> "identity", pgError2Error |-> "identity"]

\* new Query({ name: 'q', generate: () => {} })
DefaultQuery == [name |-> "q", transform |-> Null]

Init ==
  /\ types = DefaultTypeMap
  /\ conf = DefaultConf
  /\ query = DefaultQuery
  /\ hooks = NewHooks
  /\ added = NewHooks
  /\ last = NoCall
  /\ runs = [c \in OneCaller |-> IdleRun]
  /\ pure = NoPure
  /\ entity = NoEntity

(***************************************************************************)
(* PerseestHooks.add                                                       *)
(***************************************************************************)
\* if (!hook) { hook = when; when = null }
AddHookArg(a1, a2) == IF ~Truthy(a2) THEN a1 ELSE a2
AddWhenArgDropped(a1, a2) == Null
AddWhenArg(a1, a2) == IF ~Truthy(a2) THEN Null ELSE a1

\* when && !['before', 'after'].includes(when)
InvalidWhen(when) == Truthy(when) /\ when \notin SeqToSet(BeforeAfter)

\* when ? [when] : ['before', 'after']
TargetsReversed(when) == IF Truthy(when) THEN <<when>> ELSE <<"after", "before">>
Targets(when) == IF Truthy(when) THEN <<when>> ELSE BeforeAfter

\* this[t].push(hook)
PushFront(arr, hook) == <<hook>> \o arr
Push(arr, hook) == Append(arr, hook)

AddThrows(a1, a2) ==
  \/ InvalidWhen(AddWhenArg(a1, a2))
  \/ ~IsFunction(AddHookArg(a1, a2))

\* for (const t of ...) { this[t].push(hook) }
AddResult(h, a1, a2) ==
  LET ts == SeqToSet(Targets(AddWhenArg(a1, a2)))
  IN [t \in {"before", "after"} |->
        IF t \in ts THEN Push(h[t], AddHookArg(a1, a2)) ELSE h[t]]

\* History: the callbacks a successful add(a1, a2) registers, per sequence,
\* by its documented contract: add(when, hook) registers hook in sequence
\* `when`, or in both when `when` is falsy; add(hook) registers it in both.
AddedBy(a, a1, a2) ==
  [t \in {"before", "after"} |->
     IF a2 \in HookFns
       THEN (IF a1 = t \/ a1 \in {Null, EmptyStr} THEN Append(a[t], a2) ELSE a[t])
       ELSE Append(a[t], a1)]

InFlight(c) == runs[c].pc \in {"awaitHook", "awaitHooksRun", "awaitQuery"}
Settled(c) == runs[c].pc \in {"resolved", "rejected"}

\* add and flush are called between runs or while runs are suspended; a
\* settled run is collected by its caller first.
MayMutate ==
  /\ \A c \in Callers : ~Settled(c)
  /\ \A c \in Callers : InFlight(c) => runs[c].raced < MaxRace

Raced == [c \in Callers |-> IF InFlight(c) THEN [runs[c] EXCEPT !.raced = @ + 1] ELSE runs[c]]

\* History: the runs in flight when a flush empties a sequence.
RacedByFlush == [c \in Callers |-> IF InFlight(c) THEN [Raced[c] EXCEPT !.flushed = TRUE] ELSE Raced[c]]

HooksAdd(a1, a2) ==
  /\ MayMutate
  /\ IF AddThrows(a1, a2)
       THEN /\ UNCHANGED <<hooks, added, types>>
            /\ last' = [op |-> "add", a1 |-> a1, a2 |-> a2, threw |-> TRUE]
       ELSE /\ Len(AddResult(hooks, a1, a2).before) + Len(AddResult(hooks, a1, a2).after) <= MaxHooks
            /\ hooks' = AddResult(hooks, a1, a2)
            /\ added' = AddedBy(added, a1, a2)
            /\ last' = [op |-> "add", a1 |-> a1, a2 |-> a2, threw |-> FALSE]
  /\ runs' = Raced
  /\ UNCHANGED <<conf, query, pure, entity, types>>

(***************************************************************************)
(* PerseestHooks.flush                                                     *)
(***************************************************************************)
\* when && (!validate.isString(when) || !['before','after'].includes(when))
FlushThrows(when) ==
  Truthy(when) /\ (~IsString(when) \/ when \notin SeqToSet(BeforeAfter))

\* for (const t of ...) { this[t] = [] }
FlushResultBoth(h, when) == [before |-> <<>>, after |-> <<>>]
FlushResult(h, when) ==
  [t \in {"before", "after"} |->
     IF t \in SeqToSet(Targets(when)) THEN <<>> ELSE h[t]]

\* History: the first flush of each sequence made while the run is in flight
\* finds the run suspended inside the sequence, whose array is then noted, or
\* ahead of it (a run of hooks has it in rest, a run of a Query has not yet
\* called hooks.run('after')).
NoteFlush(r, when) ==
  LET Inside(t) == r.pc = "awaitHook" /\ r.t = t
      Ahead(t) == \/ t \in SeqToSet(r.rest)
                  \/ r.kind = "query" /\ t = "after" /\ r.phase \in {"before", "query"}
  IN IF r.pc \notin {"awaitHook", "awaitHooksRun", "awaitQuery"} THEN r
     ELSE [r EXCEPT !.fl =
            [t \in {"before", "after"} |->
               IF t \notin SeqToSet(Targets(when)) \/ r.fl[t] # NoFlush THEN r.fl[t]
               ELSE IF Inside(t) THEN [how |-> "inside", arr |-> hooks[t]]
               ELSE IF Ahead(t) THEN [how |-> "ahead", arr |-> <<>>]
               ELSE r.fl[t]]]

\* this[t] = [] binds a new array: the iterator of a run suspended inside
\* this[t] keeps the array it was created on.
DetachNever(r, when) == r
Detach(r, when) ==
  IF r.pc = "awaitHook" /\ ~r.detached /\ r.t \in SeqToSet(Targets(when))
    THEN [r EXCEPT !.detached = TRUE, !.arr = hooks[r.t]]
    ELSE r

HooksFlush(when) ==
  /\ MayMutate
  /\ IF FlushThrows(when)
       THEN /\ UNCHANGED <<hooks, added, types>>
            /\ last' = [op |-> "flush", a1 |-> when, a2 |-> Null, threw |-> TRUE]
            /\ runs' = Raced
       ELSE /\ hooks' = FlushResult(hooks, when)
            /\ added' = [t \in {"before", "after"} |->
                           IF when = t \/ ~Truthy(when) THEN <<>> ELSE added[t]]
            /\ last' = [op |-> "flush", a1 |-> when, a2 |-> Null, threw |-> FALSE]
            /\ runs' = [c \in Callers |-> Detach(NoteFlush(RacedByFlush[c], when), when)]
  /\ UNCHANGED <<conf, query, pure, entity, types>>

(***************************************************************************)
(* PerseestHooks.run                                                       *)
(***************************************************************************)
\* if (!params && typeof when === 'object') { params = when; when = null }
RunWhenArg(a1, a2) == IF ~Truthy(a2) /\ TypeofObject(a1) THEN Null ELSE a1
RunParamsArg(a1, a2) == IF ~Truthy(a2) /\ TypeofObject(a1) THEN a1 ELSE a2

\* The array the for-of iterator of line 65 reads.
IterArrAtStart(h, r) == r.snap[r.t]
IterArr(h, r) == IF r.detached THEN r.arr ELSE h[r.t]

\* The loops of lines 64-69 from the iterator's position up to the next
\* await, the first throw, or the end of the last sequence.
RECURSIVE Drive(_, _)
Drive(h, r) ==
  IF r.idx < Len(IterArr(h, r))
    THEN LET f == IterArr(h, r)[r.idx + 1]
             called == [r EXCEPT !.idx = @ + 1, !.cur = f,
                                 !.log = Append(@, Ev("call", r.t, f))]
         IN IF Throws(HookCall(f))
              THEN [called EXCEPT !.st = "threw", !.err = HookError(f),
                                  !.log = Append(@, Ev("throw", r.t, f))]
              ELSE IF IsPromise(HookCall(f))
                THEN [called EXCEPT !.st = "await",
                                    !.log = Append(@, Ev("return", r.t, f))]
                ELSE Drive(h, [called EXCEPT !.log = Append(@, Ev("return", r.t, f))])
    ELSE IF r.rest # <<>>
      THEN Drive(h, [r EXCEPT !.t = Head(r.rest), !.rest = Tail(r.rest), !.idx = 0,
                              !.detached = FALSE, !.arr = <<>>, !.cur = "-"])
      ELSE [r EXCEPT !.st = "done", !.cur = "-"]

\* The body of run from its call.
EnterHooksRun(h, r, when) ==
  IF InvalidWhen(when)
    THEN [r EXCEPT !.st = "threw", !.err = TypeErr, !.snap = h, !.flushed = FALSE]
    ELSE Drive(h, [r EXCEPT !.t = Head(Targets(when)), !.rest = Tail(Targets(when)),
                            !.idx = 0, !.detached = FALSE, !.arr = <<>>, !.st = "-",
                            !.snap = h, !.flushed = FALSE])

\* The body of run from the settling of the promise it awaits.
ResumeHooksRun(h, r) ==
  IF PromiseOutcome(r.cur) = "resolve"
    THEN Drive(h, [r EXCEPT !.log = Append(@, Ev("settle", r.t, r.cur))])
    ELSE [r EXCEPT !.st = "threw", !.err = HookError(r.cur),
                   !.log = Append(@, Ev("reject", r.t, r.cur))]

\* Where the caller of hooks.run stands once run has reached an await or
\* its end.  For a direct caller the promise of run is the outcome; Query.run
\* awaits that promise (lines 70 and 73) and continues in a later step.
SettleHooksCall(r) ==
  CASE r.st = "await" -> [r EXCEPT !.pc = "awaitHook"]
    [] r.kind = "query" -> [r EXCEPT !.pc = "awaitHooksRun"]
    [] r.st = "done" -> [r EXCEPT !.pc = "resolved"]
    [] OTHER -> [r EXCEPT !.pc = "rejected"]

HooksRun(c, a1, a2) ==
  /\ runs[c].pc = "idle"
  /\ runs' = [runs EXCEPT ![c] =
       SettleHooksCall(EnterHooksRun(hooks,
         [IdleRun EXCEPT !.kind = "hooks", !.a1 = a1, !.a2 = a2],
         RunWhenArg(a1, a2)))]
  /\ last' = NoCall
  /\ UNCHANGED <<conf, query, hooks, added, pure, entity, types>>

HookSettles(c) ==
  /\ runs[c].pc = "awaitHook"
  /\ runs' = [runs EXCEPT ![c] = SettleHooksCall(ResumeHooksRun(hooks, runs[c]))]
  /\ last' = NoCall
  /\ UNCHANGED <<conf, query, hooks, added, pure, entity, types>>

\* The caller has observed the outcome of its run.
Collect(c) ==
  /\ Settled(c)
  /\ runs' = [runs EXCEPT ![c] = IdleRun]
  /\ last' = NoCall
  /\ UNCHANGED <<conf, query, hooks, added, pure, entity, types>>

(***************************************************************************)
(* PerseestQuery: the result transforms and run                            *)
(***************************************************************************)
\* conf.row2Entity: the default is row => row.
Row2Entity(cf, row) ==
  IF cf.row2Entity = "identity" THEN row
  ELSE IF row = "r1" THEN "e1" ELSE "e2"

\* conf.pgError2Error: the default is res => res.
PgError2ErrorSkipped(cf, e) == e
PgError2Error(cf, e) ==
  IF cf.pgError2Error = "identity" THEN e ELSE [e EXCEPT !.norm = TRUE]

Entity(e) == MkVal("entity", FALSE, <<e>>)
Bool(b) == MkVal("bool", b, <<>>)
NullVal == MkVal("null", FALSE, <<>>)
List(es) == MkVal("list", FALSE, es)

\* query.transform || conf.row2Entity, the callback of rows.map in 'multiple'.
MapCallback(q) == IF q.transform # Null THEN q.transform ELSE "row2Entity"

\* ({ res }) => params.conf.row2Entity(res.rows[0]), the default of run;
\* the default row2Entity gives undefined for undefined.
DefaultTransformChecked(cf, res) ==
  IF Len(res.rows) > 1 THEN Threw
  ELSE IF res.rows = <<>> THEN Undefined ELSE Entity(Row2Entity(cf, res.rows[1]))
DefaultTransform(cf, res) ==
  IF res.rows = <<>> THEN Undefined ELSE Entity(Row2Entity(cf, res.rows[1]))

\* 'singular': if (!res.rows.length) return null; return conf.row2Entity(res.rows[0])
SingularTransformStrict(cf, res) ==
  IF Len(res.rows) = 1 THEN Entity(Row2Entity(cf, res.rows[1])) ELSE NullVal
SingularTransform(cf, res) ==
  IF res.rows = <<>> THEN NullVal ELSE Entity(Row2Entity(cf, res.rows[1]))

\* 'multiple': res.rows.length ? res.rows.map(query.transform || conf.row2Entity) : []
MultipleTransform(q, cf, res) ==
  IF res.rows = <<>> THEN List(<<>>)
  ELSE IF MapCallback(q) = "row2Entity"
    THEN List([i \in DOMAIN res.rows |-> Row2Entity(cf, res.rows[i])])
    \* a transform called on a row reads row.res.rows: a TypeError
    ELSE Threw

\* 'boolean': res.rowCount ? true : false
BooleanTransformRows(res) == Bool(res.rows # <<>>)
BooleanTransform(res) == Bool(res.rowCount # 0)

\* The transform of the fetch query of lib/PerseestQuery.js: null for no
\* row, the row itself for one row, an error for more.
LegacyFetchTransform(res) ==
  CASE Len(res.rows) = 0 -> NullVal
    [] Len(res.rows) = 1 -> Entity(res.rows[1])
    [] OTHER -> Threw

\* A transform (static types, lines 126-134; the default of lines 67-68; the
\* older fetch transform; a custom function that throws) applied to the
\* params of a run.
ApplyTransform(tf, q, cf, res) ==
  CASE tf = Null -> DefaultTransform(cf, res)
    [] tf = "singular" -> SingularTransform(cf, res)
    [] tf = "multiple" -> MultipleTransform(q, cf, res)
    [] tf = "boolean" -> BooleanTransform(res)
    [] tf = "legacyFetch" -> LegacyFetchTransform(res)
    [] OTHER -> Threw

\* The literals of lines 70 and 73.
BeforeLiteralWrong == "after"
BeforeLiteral == "before"
AfterLiteralWrong == "before"
AfterLiteral == "after"

\* catch (err) { throw params.conf.pgError2Error(err) }
Catch(cf, r, e) ==
  [r EXCEPT !.pc = "rejected", !.err = PgError2Error(cf, e),
            !.log = Append(@, Ev("pgError2Error", e.src, e.h))]

\* Whether the awaited hooks.run rejected.
HooksRunRejectedNever(r) == FALSE
HooksRunRejected(r) == r.st = "threw"

\* return params.ret
ReturnsShared(r) == runs["c1"].ret
Returns(r) == r.ret

\* The params object a caller passes to Query.run: each caller its own.
ParamsOf(c) == IF c = "c1" THEN ParamsObj ELSE OtherParams

\* this.generate(params): the statement is made from the params it is given.
Generate(p) == [text |-> "sql", of |-> p]

\* params.query = this; ...; await this.hooks.run('before', params)
QueryRun(c) ==
  /\ runs[c].pc = "idle"
  /\ runs' = [runs EXCEPT ![c] =
       SettleHooksCall(EnterHooksRun(hooks,
         [IdleRun EXCEPT !.kind = "query", !.a1 = ParamsOf(c), !.phase = "before",
                         !.pquery = query.name,
                         !.log = <<Ev("setQuery", "-", "-")>>],
         BeforeLiteral))]
  /\ last' = NoCall
  /\ UNCHANGED <<conf, query, hooks, added, pure, entity, types>>

\* Query.run from the settling of hooks.run('before') up to the await of
\* pool.query, or from the settling of hooks.run('after') to its end.
QueryResume(cf, r) ==
  IF HooksRunRejected(r) THEN Catch(cf, r, r.err)
  ELSE IF r.phase = "before"
    THEN [r EXCEPT !.pc = "awaitQuery", !.phase = "query", !.stmt = Generate(r.a1),
                   !.log = @ \o <<Ev("generate", "-", "-"), Ev("execute", "-", "-")>>]
    ELSE [r EXCEPT !.pc = "resolved", !.value = Returns(r)]

HooksRunSettles(c) ==
  /\ runs[c].pc = "awaitHooksRun"
  /\ runs' = [runs EXCEPT ![c] = QueryResume(conf, runs[c])]
  /\ last' = NoCall
  /\ UNCHANGED <<conf, query, hooks, added, pure, entity, types>>

\* Query.run from the resolution of pool.query: params.res, the transform,
\* params.ret, then hooks.run('after') up to its first await or its end.
QueryAfterResponse(cf, q, h, r, res) ==
  LET got == [r EXCEPT !.res = res,
                       !.log = @ \o <<Ev("setRes", "-", "-"), Ev("transform", "-", "-")>>]
      ret == ApplyTransform(q.transform, q, cf, res)
  IN IF ret = Threw
       THEN Catch(cf, got, TransformErr)
       ELSE SettleHooksCall(EnterHooksRun(h,
              [got EXCEPT !.ret = ret, !.phase = "after",
                          !.log = Append(@, Ev("setRet", "-", "-"))],
              AfterLiteral))

PoolQueryResolves(c, res) ==
  /\ runs[c].pc = "awaitQuery"
  /\ runs' = [runs EXCEPT ![c] = QueryAfterResponse(conf, query, hooks, runs[c], res)]
  /\ last' = NoCall
  /\ UNCHANGED <<conf, query, hooks, added, pure, entity, types>>

PoolQueryRejects(c) ==
  /\ runs[c].pc = "awaitQuery"
  /\ runs' = [runs EXCEPT ![c] =
       Catch(conf, [runs[c] EXCEPT !.log = Append(@, Ev("queryRejected", "-", "-"))], DbErr)]
  /\ last' = NoCall
  /\ UNCHANGED <<conf, query, hooks, added, pure, entity, types>>

AddA1 == {"before", "after", Null, EmptyStr, BadWhen}
AddA2 == HookFns \cup {Null, NotFn}
FlushA1 == {"before", "after", Null, EmptyStr, BadWhen, ParamsObj}
RunA1 == {"before", "after", Null, EmptyStr, BadWhen, ParamsObj}
RunA2 == {ParamsObj, Null}

Next ==
  \/ \E a1 \in AddA1, a2 \in AddA2 : HooksAdd(a1, a2)
  \/ \E f \in HookFns : HooksAdd(f, Null)
  \/ \E a1 \in FlushA1 : HooksFlush(a1)
  \/ \E c \in Callers, a1 \in RunA1, a2 \in RunA2 : HooksRun(c, a1, a2)
  \/ \E c \in Callers : HookSettles(c)
  \/ \E c \in Callers : Collect(c)

Spec == Init /\ [][Next]_vars

(***************************************************************************)
(* The query pipeline: a Query with any transform, under a config with     *)
(* either error normalizer, its hooks registered with valid arguments.     *)
(***************************************************************************)
Transforms == {Null, "boolean", "customThrow"}
Normalizers == {"identity", "custom"}

InitQuery ==
  /\ types = DefaultTypeMap
  /\ conf \in {[DefaultConf EXCEPT !.pgError2Error = n] : n \in Normalizers}
  /\ query \in {[DefaultQuery EXCEPT !.transform = tf] : tf \in Transforms}
  /\ hooks = NewHooks
  /\ added = NewHooks
  /\ last = NoCall
  /\ runs = [c \in OneCaller |-> IdleRun]
  /\ pure = NoPure
  /\ entity = NoEntity

NextQuery ==
  \/ \E a1 \in {"before", "after"}, a2 \in HookFns : HooksAdd(a1, a2)
  \/ \E a1 \in {"before", "after", Null} : HooksFlush(a1)
  \/ \E c \in Callers : QueryRun(c)
  \/ \E c \in Callers : HookSettles(c)
  \/ \E c \in Callers : HooksRunSettles(c)
  \/ \E c \in Callers, res \in Responses : PoolQueryResolves(c, res)
  \/ \E c \in Callers : PoolQueryRejects(c)
  \/ \E c \in Callers : Collect(c)

SpecQuery == InitQuery /\ [][NextQuery]_vars

(***************************************************************************)
(* Two entities sharing a config run the same Query at the same time, each *)
(* with its own params; the hooks were registered beforehand.              *)
(***************************************************************************)
SharedTransforms == {Null, "boolean"}

InitConcurrent ==
  /\ types = DefaultTypeMap
  /\ conf = DefaultConf
  /\ query \in {[DefaultQuery EXCEPT !.transform = tf] : tf \in SharedTransforms}
  /\ hooks = NewHooks
  /\ added = NewHooks
  /\ last = NoCall
  /\ runs = [c \in TwoCallers |-> IdleRun]
  /\ pure = NoPure
  /\ entity = NoEntity

NextConcurrent ==
  \/ \E a1 \in {"before", "after"}, a2 \in HookFns :
       (\A c \in Callers : runs[c].pc = "idle") /\ HooksAdd(a1, a2)
  \/ \E c \in Callers : QueryRun(c)
  \/ \E c \in Callers : HookSettles(c)
  \/ \E c \in Callers : HooksRunSettles(c)
  \/ \E c \in Callers, res \in Responses : PoolQueryResolves(c, res)
  \/ \E c \in Callers : PoolQueryRejects(c)
  \/ \E c \in Callers : Collect(c)

SpecConcurrent == InitConcurrent /\ [][NextConcurrent]_vars

(***************************************************************************)
(* The PerseestQuery constructor                                           *)
(***************************************************************************)
\* A name given to the constructor: a string, as its characters, or a value
\* that is no string (undefined, an object, a function).
NameStr(cs) == [isString |-> TRUE, chars |-> cs, atom |-> "-"]
NameOther(a) == [isString |-> FALSE, chars |-> <<>>, atom |-> a]

Letters == {"a", "z", "A", "Z"}
Digits == {"0", "9"}

\* /^[a-z_][a-z0-9_]*$/i.test(name)
MatchesName(cs) ==
  /\ Len(cs) >= 1
  /\ cs[1] \in Letters \cup {"_"}
  /\ \A i \in 2..Len(cs) : cs[i] \in Letters \cup Digits \cup {"_"}

\* validate.isString(name) && the pattern
ValidName(name) == name.isString /\ MatchesName(name.chars)

\* this.constructor.types.get(type): the registered transform, or undefined.
TypesGetAny(type) == type
TypesGet(type) == IF type \in DOMAIN types THEN types[type] ELSE Null

Thrown(e) == [ok |-> FALSE, err |-> e, name |-> NameOther(Null), generate |-> Null,
              transform |-> Null, hooks |-> NewHooks]
Constructed(n, g, t) == [ok |-> TRUE, err |-> "-", name |-> n, generate |-> g,
                         transform |-> t, hooks |-> NewHooks]
NotConstructed == Thrown("-")

\* constructor ({ name, generate, transform, type })
Construct(name, generate, transform, type) ==
  IF ~ValidName(name) THEN Thrown("TypeError")
  ELSE IF ~IsFunction(generate) THEN Thrown("TypeError")
  ELSE IF Truthy(transform) /\ ~IsFunction(transform) THEN Thrown("TypeError")
  ELSE IF Truthy(type)
    THEN IF Truthy(transform) THEN Thrown("Error")
         ELSE IF ~IsString(type) THEN Thrown("TypeError")
         ELSE IF ~Truthy(TypesGet(type)) THEN Thrown("Error")
         ELSE Constructed(name, generate, TypesGet(type))
    ELSE Constructed(name, generate, transform)

\* The arguments tried.
NameChars == {"a", "Z", "_", "0", "%"}
Names ==
  {NameStr(cs) : cs \in UNION {[1..n -> NameChars] : n \in 0..MaxNameLen}}
    \cup {NameOther(a) : a \in {Null, NotFn, "syncOk"}}
GenerateArgs == {"syncOk", Null, EmptyStr, NotFn}
TransformArgs == {"syncOk", Null, EmptyStr, NotFn}
TypeArgs == TypeNames \cup {Null, EmptyStr, NotFn}

InitConstruct ==
  /\ types = DefaultTypeMap
  /\ conf = DefaultConf
  /\ query = DefaultQuery
  /\ hooks = NewHooks
  /\ added = NewHooks
  /\ last = NoCall
  /\ runs = [c \in OneCaller |-> IdleRun]
  /\ pure \in {[fn |-> "construct", name |-> n, generate |-> g, transform |-> t,
                 type |-> ty, done |-> FALSE, out |-> NotConstructed] :
                 n \in Names, g \in GenerateArgs, t \in TransformArgs, ty \in TypeArgs}
  /\ entity = NoEntity

\* new PerseestQuery({ name, generate, transform, type })
NewQuery ==
  /\ pure.fn = "construct"
  /\ ~pure.done
  /\ pure' = [pure EXCEPT !.done = TRUE,
                          !.out = Construct(pure.name, pure.generate, pure.transform, pure.type)]
  /\ UNCHANGED <<conf, query, hooks, added, last, runs, entity, types>>

NextConstruct == NewQuery

SpecConstruct == InitConstruct /\ [][NextConstruct]_vars

(***************************************************************************)
(* Queries of each kind of transform run on every response of the executor.*)
(***************************************************************************)
\* The type each query of PerseestQuery.default() is constructed with.
DefaultTypes ==
  [save |-> "boolean", fetch |-> "singular", update |-> "boolean", delete |-> "boolean"]

\* PerseestQuery.default(), a Query without transform and type, a Query of
\* type 'multiple', and a Query with the older fetch transform.
TypedQueries ==
  {[name |-> n, transform |-> TypesGet(DefaultTypes[n])] : n \in DOMAIN DefaultTypes}
    \cup {[DefaultQuery EXCEPT !.transform = tf] : tf \in {Null, "multiple", "legacyFetch"}}

\* Responses to a SELECT (rowCount is the number of rows) and to a statement
\* returning no rows (rowCount is the number of rows affected).
PgResponses ==
  {MkRes(rs) : rs \in UNION {[1..n -> Rows] : n \in 0..MaxRows}}
    \cup {[rows |-> <<>>, rowCount |-> n] : n \in 0..MaxRowCount}

InitTyped ==
  /\ types = DefaultTypeMap
  /\ conf \in {[DefaultConf EXCEPT !.row2Entity = m] : m \in {"identity", "custom"}}
  /\ query \in TypedQueries
  /\ hooks = NewHooks
  /\ added = NewHooks
  /\ last = NoCall
  /\ runs = [c \in OneCaller |-> IdleRun]
  /\ pure = NoPure
  /\ entity = NoEntity

NextTyped ==
  \/ \E c \in Callers : QueryRun(c)
  \/ \E c \in Callers : HooksRunSettles(c)
  \/ \E c \in Callers, res \in PgResponses : PoolQueryResolves(c, res)
  \/ \E c \in Callers : PoolQueryRejects(c)
  \/ \E c \in Callers : Collect(c)

SpecTyped == InitTyped /\ [][NextTyped]_vars

(***************************************************************************)
(* The helpers and the generator of the default save query.  A text is the *)
(* sequence of the pieces it is concatenated from.                         *)
(***************************************************************************)
\* function *range(start, stop): the values from start to stop, both inclusive.
RangeExclusive(start, stop) ==
  [i \in 1..(IF stop > start THEN stop - start ELSE 0) |-> start + i - 1]
Range(start, stop) ==
  [i \in 1..(IF stop >= start THEN stop - start + 1 ELSE 0) |-> start + i - 1]

\* arr.join(sep)
Join(arr, sep) ==
  [i \in 1..(IF arr = <<>> THEN 0 ELSE 2 * Len(arr) - 1) |->
     IF i % 2 = 1 THEN arr[(i + 1) \div 2] ELSE sep]

\* `$${n}`
Dollar(n) == "$" \o ToString(n)

\* placeholders(n): [...range(1,n)].map(n => `$${n}`).join(', ')
Placeholders(n) ==
  Join([i \in DOMAIN Range(1, n) |-> Dollar(Range(1, n)[i])], ", ")

\* ent[col]: undefined for a property the entity does not have.
EntGet(ent, col) == IF col \in DOMAIN ent THEN ent[col] ELSE Null

\* entityCV(ent, columns): [cols, vals], pushed column by column.
EntityCV(ent, columns) ==
  [cols |-> [i \in DOMAIN columns |-> columns[i]],
   vals |-> [i \in DOMAIN columns |-> EntGet(ent, columns[i])]]

\* The generator of the default save query (lines 89-95).
SaveGenerate(cf, ent, columns) ==
  LET cv == EntityCV(ent, columns)
  IN [text |-> <<"INSERT INTO ", cf.table, " (">> \o Join(cv.cols, ", ")
                 \o <<") VALUES (">> \o Placeholders(Len(cv.cols)) \o <<")">>,
      values |-> cv.vals]

NoStatement == [text |-> <<>>, values |-> <<>>]

\* The entities and column lists tried.
ColumnNames == {"id", "name", "email"}
FieldValues == {"v1", "v2"}
Entities == UNION {[props -> FieldValues] : props \in SUBSET ColumnNames}
ColumnLists == UNION {[1..n -> ColumnNames] : n \in 0..MaxCols}
SaveConf == [table |-> "Mockies"]

InitSave ==
  /\ types = DefaultTypeMap
  /\ conf = DefaultConf
  /\ query = [name |-> "save", transform |-> TypesGet(DefaultTypes.save)]
  /\ hooks = NewHooks
  /\ added = NewHooks
  /\ last = NoCall
  /\ runs = [c \in OneCaller |-> IdleRun]
  /\ pure \in {[fn |-> "save", ent |-> e, columns |-> cs, done |-> FALSE,
                 out |-> NoStatement] : e \in Entities, cs \in ColumnLists}
  /\ entity = NoEntity

\* this.generate(params) of the save query
GenerateSave ==
  /\ pure.fn = "save"
  /\ ~pure.done
  /\ pure' = [pure EXCEPT !.done = TRUE,
                          !.out = SaveGenerate(SaveConf, pure.ent, pure.columns)]
  /\ UNCHANGED <<conf, query, hooks, added, last, runs, entity, types>>

NextSave == GenerateSave

SpecSave == InitSave /\ [][NextSave]_vars

(***************************************************************************)
(* The generator of the default update query.  A property of an entity is  *)
(* a scalar or an array of scalars.                                        *)
(***************************************************************************)
Scalar(v) == [isArray |-> FALSE, items |-> <<v>>]
ArrayOf(vs) == [isArray |-> TRUE, items |-> vs]

\* ent[col] for such entities.
PropGet(ent, col) == IF col \in DOMAIN ent THEN ent[col] ELSE Scalar(Null)

\* arr.concat(x): an array argument is spread, any other value is appended.
Concat(arr, x) ==
  IF x.isArray THEN arr \o [i \in DOMAIN x.items |-> Scalar(x.items[i])]
  ELSE Append(arr, x)

\* pieces.join(sep) where every piece is itself a text.
RECURSIVE JoinTexts(_, _)
JoinTexts(pieces, sep) ==
  IF pieces = <<>> THEN <<>>
  ELSE IF Len(pieces) = 1 THEN pieces[1]
  ELSE pieces[1] \o <<sep>> \o JoinTexts(Tail(pieces), sep)

\* The generator of the default update query (lines 108-113).
UpdateGenerate(cf, ent, columns) ==
  [text |-> <<"UPDATE ", cf.table, " SET ">>
              \o JoinTexts([idx \in DOMAIN columns |->
                              <<columns[idx], " = ", Dollar(idx)>>], ", ")
              \o <<" WHERE ", cf.primaryKey, " = ", Dollar(Len(columns) + 1), ";">>,
   values |-> Concat([i \in DOMAIN columns |-> PropGet(ent, columns[i])],
                     PropGet(ent, cf.primaryKey))]

\* The entities tried: every property a scalar, an empty array or an array
\* of two.
PropValues == {Scalar("v1"), Scalar("v2"), ArrayOf(<<>>), ArrayOf(<<"v1", "v2">>)}
UpdateEntities == UNION {[props -> PropValues] : props \in SUBSET ColumnNames}
UpdateConf == [table |-> "Mockies", primaryKey |-> "id"]

InitUpdate ==
  /\ types = DefaultTypeMap
  /\ conf = DefaultConf
  /\ query = [name |-> "update", transform |-> TypesGet(DefaultTypes.update)]
  /\ hooks = NewHooks
  /\ added = NewHooks
  /\ last = NoCall
  /\ runs = [c \in OneCaller |-> IdleRun]
  /\ pure \in {[fn |-> "update", ent |-> e, columns |-> cs, done |-> FALSE,
                 out |-> NoStatement] : e \in UpdateEntities, cs \in ColumnLists}
  /\ entity = NoEntity

\* this.generate(params) of the update query
GenerateUpdate ==
  /\ pure.fn = "update"
  /\ ~pure.done
  /\ pure' = [pure EXCEPT !.done = TRUE,
                          !.out = UpdateGenerate(UpdateConf, pure.ent, pure.columns)]
  /\ UNCHANGED <<conf, query, hooks, added, last, runs, entity, types>>

NextUpdate == GenerateUpdate

SpecUpdate == InitUpdate /\ [][NextUpdate]_vars

(***************************************************************************)
(* The configuration object.  The arguments of its constructor are strings *)
(* (sequences of characters), arrays, Sets, plain objects or undefined.    *)
(***************************************************************************)
Str(chars) == [kind |-> "string", items |-> chars]
Arr(items) == [kind |-> "array", items |-> items]
SetOf(items) == [kind |-> "set", items |-> items]
PlainObject == [kind |-> "object", items |-> <<>>]
Omitted == [kind |-> "undefined", items |-> <<>>]

\* validate.isString, for these values
IsStr(v) == v.kind = "string"

\* The blank string ''
Blank == Str(<<>>)

\* help.isIterable: o && typeof o[Symbol.iterator] === 'function'
IsIterable(o) ==
  \/ o.kind \in {"array", "set"}
  \/ o.kind = "string" /\ o.items # <<>>

\* The elements an iteration of o yields: the items of an array or a Set,
\* the characters of a string.
Elements(o) ==
  IF o.kind = "string" THEN {Str(<<o.items[i]>>) : i \in DOMAIN o.items}
  ELSE SeqToSet(o.items)

\* A Set has no method concat.
HasConcat(o) == o.kind \in {"array", "string"}

\* ids.concat(primaryKey): an array gets one more item, a string is
\* continued by the characters of primaryKey.
ConcatKey(ids, primaryKey) ==
  IF ids.kind = "string" THEN Str(ids.items \o primaryKey.items)
  ELSE Arr(Append(ids.items, primaryKey))

\* Set.prototype.union
Union(set, other) == set \cup Elements(other)

\* { ids = [], columns = [] } = {}
OrEmptyArray(v) == IF v = Omitted THEN Arr(<<>>) ELSE v

\* What there is when the constructor threw.
NoConfig ==
  [constructed |-> FALSE, table |-> Omitted, primaryKey |-> Omitted,
   ids |-> {}, columns |-> {}, queries |-> [n \in {} |-> NewHooks],
   pool |-> "none", row2Entity |-> "identity", pgError2Error |-> "identity"]

\* Whether new PerseestConfig(table, primaryKey, { ids, columns }) throws.
ConfigThrows(table, primaryKey, ids, columns) ==
  \/ ~IsStr(table) \/ table = Blank
  \/ ~IsStr(primaryKey) \/ primaryKey = Blank
  \/ ~IsIterable(OrEmptyArray(ids))
  \/ ~IsIterable(OrEmptyArray(columns))
  \/ ~HasConcat(OrEmptyArray(ids))

\* new PerseestConfig(table, primaryKey, { ids, columns })
NewConfig(table, primaryKey, ids, columns) ==
  IF ConfigThrows(table, primaryKey, ids, columns) THEN NoConfig
  ELSE LET idSet == Elements(ConcatKey(OrEmptyArray(ids), primaryKey))
       IN [constructed |-> TRUE, table |-> table, primaryKey |-> primaryKey,
           ids |-> idSet, columns |-> Union(idSet, OrEmptyArray(columns)),
           queries |-> [n \in DefaultQueryNames |-> NewHooks],
           pool |-> "none", row2Entity |-> "identity", pgError2Error |-> "identity"]

\* The configuration the tests create: table 'Mockies', primaryKey 'id',
\* ids ['uniq'], columns ['msg', 'msg2'].
Mockies == Str(<<"M", "o", "c", "k", "i", "e", "s">>)
IdKey == Str(<<"i", "d">>)
Uniq == Str(<<"u", "n", "i", "q">>)
Msg == Str(<<"m", "s", "g">>)
Msg2 == Str(<<"m", "s", "g", "2">>)
FactoryConfig == NewConfig(Mockies, IdKey, Arr(<<Uniq>>), Arr(<<Msg, Msg2>>))

\* this.queries.get(trigger) finds a Query.
HasQueryAny(cf, trigger) == TRUE
HasQuery(cf, trigger) == trigger \in DOMAIN cf.queries

AddHookThrows(cf, when, trigger, hook) ==
  \/ when \notin SeqToSet(BeforeAfter)
  \/ ~IsString(trigger)
  \/ ~IsFunction(hook)
  \/ ~HasQuery(cf, trigger)
  \/ AddThrows(when, hook)

\* query.hooks.add(when, hook) for the Query named trigger
AddHookResultAll(cf, when, trigger, hook) ==
  [cf EXCEPT !.queries = [n \in DOMAIN cf.queries |-> AddResult(cf.queries[n], when, hook)]]
AddHookResult(cf, when, trigger, hook) ==
  [cf EXCEPT !.queries[trigger] = AddResult(cf.queries[trigger], when, hook)]

\* The number of hooks registered in the configuration.
RECURSIVE CountHooks(_, _)
CountHooks(cf, names) ==
  IF names = {} THEN 0
  ELSE LET n == CHOOSE m \in names : TRUE
       IN Len(cf.queries[n].before) + Len(cf.queries[n].after)
            + CountHooks(cf, names \ {n})

\* conf.addHook(when, trigger, hook)
ConfigAddHook(when, trigger, hook) ==
  /\ conf.constructed
  /\ IF AddHookThrows(conf, when, trigger, hook)
       THEN /\ conf' = conf
            /\ last' = [op |-> "addHook", a1 |-> when, a2 |-> trigger, a3 |-> hook,
                        threw |-> TRUE]
       ELSE /\ CountHooks(conf, DOMAIN conf.queries) < MaxHooks
            /\ conf' = AddHookResult(conf, when, trigger, hook)
            /\ last' = [op |-> "addHook", a1 |-> when, a2 |-> trigger, a3 |-> hook,
                        threw |-> FALSE]
  /\ UNCHANGED <<query, hooks, added, runs, pure, entity, types>>

FlushHooksThrows(cf, when, trigger) ==
  \/ Truthy(when) /\ (~IsString(when) \/ when \notin SeqToSet(BeforeAfter))
  \/ Truthy(trigger) /\ ~IsString(trigger)
  \/ Truthy(trigger) /\ ~HasQuery(cf, trigger)
  \/ FlushThrows(when)

\* if (query) query.hooks.flush(when)
\* else for (const [t, q] of this.queries) q.hooks.flush(when)
FlushHooksResultOne(cf, when, trigger) ==
  [cf EXCEPT !.queries =
     [n \in DOMAIN cf.queries |->
        IF n = trigger THEN FlushResult(cf.queries[n], when) ELSE cf.queries[n]]]
FlushHooksResult(cf, when, trigger) ==
  [cf EXCEPT !.queries =
     [n \in DOMAIN cf.queries |->
        IF ~Truthy(trigger) \/ n = trigger
          THEN FlushResult(cf.queries[n], when) ELSE cf.queries[n]]]

\* conf.flushHooks(when, trigger); an omitted argument is null.
ConfigFlushHooks(when, trigger) ==
  /\ conf.constructed
  /\ IF FlushHooksThrows(conf, when, trigger)
       THEN /\ conf' = conf
            /\ last' = [op |-> "flushHooks", a1 |-> when, a2 |-> trigger, a3 |-> Null,
                        threw |-> TRUE]
       ELSE /\ conf' = FlushHooksResult(conf, when, trigger)
            /\ last' = [op |-> "flushHooks", a1 |-> when, a2 |-> trigger, a3 |-> Null,
                        threw |-> FALSE]
  /\ UNCHANGED <<query, hooks, added, runs, pure, entity, types>>

\* The arguments tried: the moments the tests pass, the names of two
\* default queries, a name of no query, the empty string, no trigger, and
\* values that are not strings or not functions.
WhenArgs == {"before", "after", Null, EmptyStr, BadWhen}
TriggerArgs == {"save", "fetch", "nonexistent", EmptyStr, Null, ParamsObj}
HookArgs == {"syncOk", "asyncOk", NotFn}

InitConfig ==
  /\ types = DefaultTypeMap
  /\ conf = FactoryConfig
  /\ query = DefaultQuery
  /\ hooks = NewHooks
  /\ added = NewHooks
  /\ last = NoCall
  /\ runs = [c \in OneCaller |-> IdleRun]
  /\ pure = NoPure
  /\ entity = NoEntity

NextConfig ==
  \/ \E when \in WhenArgs, trigger \in TriggerArgs, hook \in HookArgs :
       ConfigAddHook(when, trigger, hook)
  \/ \E when \in WhenArgs, trigger \in TriggerArgs : ConfigFlushHooks(when, trigger)

SpecConfig == InitConfig /\ [][NextConfig]_vars

(***************************************************************************)
(* Entities of a persistent class, and the queries of the configuration    *)
(* they run.  A call of an entity method, with the run of the Query it     *)
(* starts, is a record of `runs`; hooks.run is taken to its end in one     *)
(* step.                                                                   *)
(***************************************************************************)
\* A hook that writes a field of its params: params => { params.note = 'w' }
NoteHook == "writesNote"

\* new QueryParameters({ conf, ent, key, kval, columns }): the fields as they
\* were given, and those Query.run and the hooks write.
NewParams(e, key, kval, columns) ==
  [ent |-> e, key |-> key, kval |-> kval, columns |-> columns,
   query |-> Null, res |-> NoRes, ret |-> Unset, note |-> Null]

NoParams == NewParams(NoEntity, Omitted, Null, <<>>)

\* A step of a run that is handed the params: a hook, the generator, the
\* transform; `saw` is the content of the params at the call.
Step(kind, when, f, saw) == [step |-> kind, t |-> when, h |-> f, saw |-> saw]

\* No method of the entity is being called.
IdleCall ==
  [op |-> "-", args |-> <<>>, pc |-> "idle", name |-> Null, params |-> NoParams,
   log |-> <<>>, err |-> NoErr, value |-> Unset, updates |-> 0]

\* What a hook does to the params it is called with.
HookWrites(f, p) == IF f = NoteHook THEN [p EXCEPT !.note = "w"] ELSE p

\* Whether the hook throws or returns a promise that rejects.
HookFails(f) == f \in {"syncThrow", "asyncReject"}

\* The argument of hook(params) in hooks.run: the params run was given.
PassedToHookFresh(p) == NewParams(p.ent, p.key, p.kval, p.columns)
PassedToHook(p) == p

\* await this.hooks.run(when, params) to its end: every hook of the sequence
\* in order, up to the first that fails.  st is [params, log, err].
RECURSIVE RunChain(_, _, _)
RunChain(chain, when, st) ==
  IF chain = <<>> \/ st.err # NoErr THEN st
  ELSE LET f == Head(chain)
           arg == PassedToHook(st.params)
       IN RunChain(Tail(chain), when,
            [params |-> HookWrites(f, arg),
             log |-> Append(st.log, Step("hook", when, f, arg)),
             err |-> IF HookFails(f) THEN HookError(f) ELSE NoErr])

\* The Query of the registry named name.
RegistryGet(name) == [name |-> name, transform |-> TypesGet(DefaultTypes[name])]

\* queries.run(name, params): the Query named name runs with params;
\* params.query = this, then await this.hooks.run('before', params).
StartRun(cf, r, name, p) ==
  LET st == RunChain(cf.queries[name].before, BeforeLiteral,
                     [params |-> [p EXCEPT !.query = name], log |-> r.log, err |-> NoErr])
  IN [r EXCEPT !.pc = "awaitBefore", !.name = name, !.params = st.params,
               !.log = st.log, !.err = st.err]

\* catch (err) { throw params.conf.pgError2Error(err) }
RunCatch(cf, r, e) == [r EXCEPT !.pc = "runRejected", !.err = PgError2Error(cf, e)]

\* From the settling of hooks.run('before'): params.conf.pool.query is read,
\* then the generator is called with the params and the executor with the
\* statement.
AfterBefore(cf, r) ==
  IF r.err # NoErr THEN RunCatch(cf, r, r.err)
  ELSE IF cf.pool = "none" THEN RunCatch(cf, r, TypeErr)
  ELSE [r EXCEPT !.pc = "awaitQuery",
                 !.log = @ \o <<Step("generate", "-", "-", r.params),
                                Step("execute", "-", "-", r.params)>>]

\* From the resolution of pool.query: params.res, the transform, params.ret,
\* then await this.hooks.run('after', params).
AfterResponse(cf, r, res) ==
  LET got == [r.params EXCEPT !.res = res]
      q == RegistryGet(r.name)
      ret == ApplyTransform(q.transform, q, cf, res)
      logged == Append(r.log, Step("transform", "-", "-", got))
  IN IF ret = Threw
       THEN RunCatch(cf, [r EXCEPT !.params = got, !.log = logged], TransformErr)
       ELSE LET st == RunChain(cf.queries[r.name].after, AfterLiteral,
                               [params |-> [got EXCEPT !.ret = ret], log |-> logged,
                                err |-> NoErr])
            IN [r EXCEPT !.pc = "awaitAfter", !.params = st.params, !.log = st.log,
                         !.err = st.err]

\* From the settling of hooks.run('after'): return params.ret
AfterAfter(cf, r) ==
  IF r.err # NoErr THEN RunCatch(cf, r, r.err)
  ELSE [r EXCEPT !.pc = "runResolved", !.value = r.params.ret]

\* [...set]
RECURSIVE SetToSeq(_)
SetToSeq(set) ==
  IF set = {} THEN <<>>
  ELSE LET x == CHOOSE y \in set : TRUE IN <<x>> \o SetToSeq(set \ {x})

\* The keys update(...args) takes: every column with no argument, the items
\* of the first argument if it is an iterable that is not a string, the
\* arguments otherwise.
UpdateKeys(cf, args) ==
  IF args = <<>> THEN SetToSeq(cf.columns)
  ELSE IF ~IsStr(args[1]) /\ IsIterable(args[1]) THEN args[1].items
  ELSE args

\* The error of the first key that is not a string or not a column.
NotAColumn == MkErr("Error", "-")
RECURSIVE KeysError(_, _)
KeysError(cf, keys) ==
  IF keys = <<>> THEN NoErr
  ELSE IF ~IsStr(Head(keys)) THEN TypeErr
  ELSE IF Head(keys) \notin cf.columns THEN NotAColumn
  ELSE KeysError(cf, Tail(keys))

\* this[name]
Prop(e, name) == IF name \in DOMAIN e.props THEN e.props[name] ELSE Null

\* The body of update(...args)
UpdateBody(cf, r, e, args) ==
  IF KeysError(cf, UpdateKeys(cf, args)) # NoErr
    THEN [r EXCEPT !.pc = "rejected", !.err = KeysError(cf, UpdateKeys(cf, args))]
    ELSE StartRun(cf, r, "update", NewParams(e, Omitted, Null, UpdateKeys(cf, args)))

\* The key is no identifier of the configuration.
NotAnIdNever(cf, key) == FALSE
NotAnId(cf, key) == key \notin cf.ids

\* The body of static fetch(key, value) and of static delete(key, value)
StaticBody(cf, r, name, key, value) ==
  IF NotAnId(cf, key)
    THEN [r EXCEPT !.pc = "rejected", !.err = NotAColumn]
    ELSE StartRun(cf, r, name, NewParams(NoEntity, key, value, <<>>))

\* The branch save() takes.
SaveFallsBackNever(e) == FALSE
SaveFallsBackLocked(e) == e.exists \/ \E c \in DOMAIN runs : runs[c].op = "save"
SaveFallsBack(e) == e.exists

\* entity.save()
EntitySave(c) ==
  /\ runs[c].pc = "idle"
  /\ runs' = [runs EXCEPT ![c] =
       IF SaveFallsBack(entity)
         THEN UpdateBody(conf, [IdleCall EXCEPT !.op = "save", !.updates = 1], entity, <<>>)
         ELSE StartRun(conf, [IdleCall EXCEPT !.op = "save"], "save",
                       NewParams(entity, Omitted, Null, <<>>))]
  /\ last' = NoCall
  /\ UNCHANGED <<conf, query, hooks, added, pure, entity, types>>

\* entity.update(...args)
EntityUpdate(c, args) ==
  /\ runs[c].pc = "idle"
  /\ runs' = [runs EXCEPT ![c] =
       UpdateBody(conf, [IdleCall EXCEPT !.op = "update", !.args = args, !.updates = 1],
                  entity, args)]
  /\ last' = NoCall
  /\ UNCHANGED <<conf, query, hooks, added, pure, entity, types>>

\* Class.fetch(key, value)
StaticFetch(c, key, value) ==
  /\ runs[c].pc = "idle"
  /\ runs' = [runs EXCEPT ![c] =
       StaticBody(conf, [IdleCall EXCEPT !.op = "fetch", !.args = <<key>>], "fetch", key, value)]
  /\ last' = NoCall
  /\ UNCHANGED <<conf, query, hooks, added, pure, entity, types>>

\* The branch delete() takes.
DeleteSkipped(e) == ~e.exists

\* entity.delete()
EntityDelete(c) ==
  /\ runs[c].pc = "idle"
  /\ runs' = [runs EXCEPT ![c] =
       IF DeleteSkipped(entity)
         THEN [IdleCall EXCEPT !.op = "delete", !.pc = "resolved", !.value = Bool(FALSE)]
         ELSE StaticBody(conf, [IdleCall EXCEPT !.op = "delete"], "delete",
                         conf.primaryKey, Prop(entity, conf.primaryKey))]
  /\ last' = NoCall
  /\ UNCHANGED <<conf, query, hooks, added, pure, entity, types>>

\* Class.delete(key, value)
StaticDelete(c, key, value) ==
  /\ runs[c].pc = "idle"
  /\ runs' = [runs EXCEPT ![c] =
       StaticBody(conf, [IdleCall EXCEPT !.op = "staticDelete", !.args = <<key>>], "delete",
                  key, value)]
  /\ last' = NoCall
  /\ UNCHANGED <<conf, query, hooks, added, pure, entity, types>>

\* hooks.run('before', params) settles.
BeforeSettles(c) ==
  /\ runs[c].pc = "awaitBefore"
  /\ runs' = [runs EXCEPT ![c] = AfterBefore(conf, runs[c])]
  /\ last' = NoCall
  /\ UNCHANGED <<conf, query, hooks, added, pure, entity, types>>

\* pool.query resolves with a response; an ended pool serves no query.
PoolResolves(c, res) ==
  /\ runs[c].pc = "awaitQuery"
  /\ conf.pool = "open"
  /\ runs' = [runs EXCEPT ![c] = AfterResponse(conf, runs[c], res)]
  /\ last' = NoCall
  /\ UNCHANGED <<conf, query, hooks, added, pure, entity, types>>

PoolRejects(c) ==
  /\ runs[c].pc = "awaitQuery"
  /\ runs' = [runs EXCEPT ![c] = RunCatch(conf, runs[c], DbErr)]
  /\ last' = NoCall
  /\ UNCHANGED <<conf, query, hooks, added, pure, entity, types>>

\* hooks.run('after', params) settles.
AfterSettles(c) ==
  /\ runs[c].pc = "awaitAfter"
  /\ runs' = [runs EXCEPT ![c] = AfterAfter(conf, runs[c])]
  /\ last' = NoCall
  /\ UNCHANGED <<conf, query, hooks, added, pure, entity, types>>

\* JavaScript truthiness of what a transform returns.
TruthyVal(v) == v.k \in {"entity", "list"} \/ (v.k = "bool" /\ v.b)

\* if (ret) this.exists = true
MarksExistsAlways(r) == r.name = "save"
MarksExists(r) == r.name = "save" /\ TruthyVal(r.value)

\* The method continues from the settling of queries.run: save marks the
\* entity, every method returns the result or throws the error again.
MethodResumes(c) ==
  /\ runs[c].pc \in {"runResolved", "runRejected"}
  /\ IF runs[c].pc = "runRejected"
       THEN /\ runs' = [runs EXCEPT ![c].pc = "rejected"]
            /\ UNCHANGED entity
       ELSE /\ runs' = [runs EXCEPT ![c].pc = "resolved"]
            /\ entity' = IF MarksExists(runs[c]) THEN [entity EXCEPT !.exists = TRUE]
                         ELSE entity
  /\ last' = NoCall
  /\ UNCHANGED <<conf, query, hooks, added, pure, types>>

\* The caller has observed the outcome of the method.
Observe(c) ==
  /\ runs[c].pc \in {"resolved", "rejected"}
  /\ runs' = [runs EXCEPT ![c] = IdleCall]
  /\ last' = NoCall
  /\ UNCHANGED <<conf, query, hooks, added, pure, entity, types>>

\* A sequence of one sequence of each default Query.
Slots == DefaultQueryNames \X {"before", "after"}

\* The hooks registered one after the other in the given slots.
RECURSIVE Registered(_, _)
Registered(chains, placed) ==
  IF placed = <<>> THEN chains
  ELSE LET slot == Head(placed)[1]
           f == Head(placed)[2]
       IN Registered([chains EXCEPT ![slot[1]][slot[2]] = Push(@, f)], Tail(placed))

\* Every registry of default queries with at most MaxHooks hooks.
ChainHooks == {NoteHook, "syncThrow"}
Registries ==
  {Registered([n \in DefaultQueryNames |-> NewHooks], placed) :
     placed \in UNION {[1..n -> Slots \X ChainHooks] : n \in 0..MaxHooks}}

\* conf.ids given as the string 'uniq' instead of the array ['uniq'].
StringIdsConfig == NewConfig(Mockies, IdKey, Str(Uniq.items), Arr(<<Msg, Msg2>>))

\* conf.setup(uri)
SetupResult(cf) == [cf EXCEPT !.pool = "open"]

\* A name of no column, and a value that is no string.
Doh == Str(<<"D", "O", "H">>)
KeyArgs == {IdKey, Uniq, Msg, Doh, PlainObject}
UpdateArgs ==
  {<<>>, <<Msg>>, <<Msg, Uniq>>, <<Doh>>, <<Msg, Doh>>, <<PlainObject>>,
   <<Arr(<<Msg, Msg2>>)>>, <<Arr(<<Msg, Doh>>)>>, <<SetOf(<<Msg>>)>>,
   <<Arr(<<PlainObject>>)>>}

InitEntity ==
  /\ types = DefaultTypeMap
  /\ conf \in {[SetupResult(cf) EXCEPT !.queries = reg] :
                 cf \in {FactoryConfig, StringIdsConfig}, reg \in Registries}
  /\ query = DefaultQuery
  /\ hooks = NewHooks
  /\ added = NewHooks
  /\ last = NoCall
  /\ runs = [c \in OneCaller |-> IdleCall]
  /\ pure = NoPure
  /\ entity \in {[exists |-> b, props |-> [k \in {IdKey} |-> "k1"]] : b \in BOOLEAN}

NextEntity ==
  \/ \E c \in Callers : EntitySave(c)
  \/ \E c \in Callers, args \in UpdateArgs : EntityUpdate(c, args)
  \/ \E c \in Callers, key \in KeyArgs : StaticFetch(c, key, "k1")
  \/ \E c \in Callers : EntityDelete(c)
  \/ \E c \in Callers, key \in KeyArgs : StaticDelete(c, key, "k1")
  \/ \E c \in Callers : BeforeSettles(c)
  \/ \E c \in Callers, res \in Responses : PoolResolves(c, res)
  \/ \E c \in Callers : PoolRejects(c)
  \/ \E c \in Callers : AfterSettles(c)
  \/ \E c \in Callers : MethodResumes(c)
  \/ \E c \in Callers : Observe(c)

SpecEntity == InitEntity /\ [][NextEntity]_vars

(***************************************************************************)
(* The life of a configuration: construction, setup, cleanup, hooks and    *)
(* query runs.                                                             *)
(***************************************************************************)
\* An error returned as a value.
ErrorVal(e) == MkVal("error", FALSE, <<e.src>>)

\* The error pool.end() rejects with.
PoolEndErr == MkErr("poolEnd", "-")

\* catch (err) { return err }
CleanupCaughtRethrown(r, e) == [r EXCEPT !.pc = "rejected", !.err = e]
CleanupCaught(r, e) == [r EXCEPT !.pc = "resolved", !.err = e, !.value = ErrorVal(e)]

\* conf.setup(opt): this.pool = new Pool(opt)
Setup ==
  /\ conf.constructed
  /\ conf' = SetupResult(conf)
  /\ last' = [op |-> "setup", a1 |-> Null, a2 |-> Null, a3 |-> Null, threw |-> FALSE]
  /\ UNCHANGED <<query, hooks, added, runs, pure, entity, types>>

\* conf.cleanup() up to its await: without a pool this.pool.end() throws a
\* TypeError inside the try; with one, the pool starts to close.
CleanupCall(c) ==
  /\ conf.constructed
  /\ runs[c].pc = "idle"
  /\ IF conf.pool = "none"
       THEN /\ runs' = [runs EXCEPT ![c] = CleanupCaught([IdleCall EXCEPT !.op = "cleanup"], TypeErr)]
            /\ conf' = conf
       ELSE /\ runs' = [runs EXCEPT ![c] = [IdleCall EXCEPT !.op = "cleanup", !.pc = "awaitEnd",
                                                            !.args = <<Str(<<conf.pool>>)>>]]
            /\ conf' = [conf EXCEPT !.pool = "ended"]
  /\ last' = NoCall
  /\ UNCHANGED <<query, hooks, added, pure, entity, types>>

\* pool.end() resolves: return null
PoolEndResolves(c) ==
  /\ runs[c].pc = "awaitEnd"
  /\ runs' = [runs EXCEPT ![c] = [runs[c] EXCEPT !.pc = "resolved", !.value = NullVal]]
  /\ last' = NoCall
  /\ UNCHANGED <<conf, query, hooks, added, pure, entity, types>>

\* pool.end() rejects, as it does on a pool that was closed before.
PoolEndRejects(c) ==
  /\ runs[c].pc = "awaitEnd"
  /\ runs' = [runs EXCEPT ![c] = CleanupCaught(runs[c], PoolEndErr)]
  /\ last' = NoCall
  /\ UNCHANGED <<conf, query, hooks, added, pure, entity, types>>

\* The arguments of the constructor tried.
TableArgs == {Mockies, Blank, PlainObject}
PrimaryKeyArgs == {IdKey, Blank, PlainObject}
IdsArgs == {Omitted, Arr(<<>>), Arr(<<Uniq>>), Str(Uniq.items), SetOf(<<Uniq>>), PlainObject, Blank}
ColumnsArgs == {Omitted, Arr(<<Msg, Msg2>>), Str(Msg.items), SetOf(<<Msg>>), PlainObject}

InitLifecycle ==
  /\ types = DefaultTypeMap
  /\ conf \in {NewConfig(t, k, i, cs) :
                 t \in TableArgs, k \in PrimaryKeyArgs, i \in IdsArgs, cs \in ColumnsArgs}
  /\ query = DefaultQuery
  /\ hooks = NewHooks
  /\ added = NewHooks
  /\ last = NoCall
  /\ runs = [c \in OneCaller |-> IdleCall]
  /\ pure = NoPure
  /\ entity = NoEntity

NextLifecycle ==
  \/ Setup
  \/ \E c \in Callers : CleanupCall(c)
  \/ \E c \in Callers : PoolEndResolves(c)
  \/ \E c \in Callers : PoolEndRejects(c)
  \/ \E when \in {"before", "after"}, trigger \in {"fetch", "nonexistent"} :
       ConfigAddHook(when, trigger, "syncOk")
  \/ \E when \in {Null, "before"}, trigger \in {Null, "fetch"} : ConfigFlushHooks(when, trigger)
  \/ \E c \in Callers, key \in {IdKey, Uniq} : conf.constructed /\ StaticFetch(c, key, "k1")
  \/ \E c \in Callers : BeforeSettles(c)
  \/ \E c \in Callers, res \in Responses : PoolResolves(c, res)
  \/ \E c \in Callers : PoolRejects(c)
  \/ \E c \in Callers : AfterSettles(c)
  \/ \E c \in Callers : MethodResumes(c)
  \/ \E c \in Callers : Observe(c)

SpecLifecycle == InitLifecycle /\ [][NextLifecycle]_vars

(***************************************************************************)
(* The registry of types: QueryTypeMap.set, and the Queries and default    *)
(* query sets constructed while the registry changes.                      *)
(***************************************************************************)
\* The outcome of set(key, value): the TypeError thrown, if any.
TypeMapSetThrows(key, value) == ~IsString(key) \/ ~IsFunction(value)

\* super.set(key, value): the entry is added, or its value replaced.
MapSet(map, key, value) ==
  [k \in DOMAIN map \cup {key} |-> IF k = key THEN value ELSE map[k]]

\* set (key, value)
TypeMapSet(key, value) ==
  /\ last' = [op |-> "set", a1 |-> key, a2 |-> value,
              threw |-> TypeMapSetThrows(key, value)]
  /\ types' = IF TypeMapSetThrows(key, value) THEN types ELSE MapSet(types, key, value)
  /\ UNCHANGED <<conf, query, hooks, added, runs, pure, entity>>

\* new PerseestQuery({ name: 'a', generate: () => {}, type })
NewTypedQuery(type) ==
  /\ query' = Construct(NameStr(<<"a">>), "syncOk", Null, type)
  /\ last' = [op |-> "new", a1 |-> type, a2 |-> Null, threw |-> ~query'.ok]
  /\ UNCHANGED <<conf, hooks, added, runs, pure, entity, types>>

\* PerseestQuery.default(): four Queries constructed with their types.
QueryDefaultStatic ==
  [n \in DefaultQueryNames |->
     Constructed(NameStr(<<"a">>), "syncOk", DefaultTypeMap[DefaultTypes[n]])]
QueryDefault ==
  [n \in DefaultQueryNames |->
     Construct(NameStr(<<"a">>), "syncOk", Null, DefaultTypes[n])]

\* new PerseestConfig(...): this.queries = Query.default()
NewDefaultQueries ==
  /\ conf' = DefaultConf @@ [queries |-> QueryDefault]
  /\ last' = [op |-> "default", a1 |-> Null, a2 |-> Null, threw |-> FALSE]
  /\ UNCHANGED <<query, hooks, added, runs, pure, entity, types>>

\* The keys and values set is called with; two functions that are none of
\* the registered transforms.
SetKeys == {"boolean", "nonexistent", EmptyStr, Null}
SetValues == {"syncOk", "asyncOk", NotFn, Null}

InitTypes ==
  /\ types = DefaultTypeMap
  /\ conf = DefaultConf @@ [queries |-> QueryDefault]
  /\ query = NotConstructed
  /\ hooks = NewHooks
  /\ added = NewHooks
  /\ last = NoCall
  /\ runs = [c \in OneCaller |-> IdleRun]
  /\ pure = NoPure
  /\ entity = NoEntity

NextTypes ==
  \/ \E key \in SetKeys, value \in SetValues : TypeMapSet(key, value)
  \/ \E type \in SetKeys : NewTypedQuery(type)
  \/ NewDefaultQueries

SpecTypes == InitTypes /\ [][NextTypes]_vars

(***************************************************************************)
(* QueryParameters: the fields given to the constructor, the fields        *)
(* derived from them, and the reads of an instance.                        *)
(***************************************************************************)
\* null, given explicitly; an object with the properties props.
NullValue == [kind |-> "null", items |-> <<>>]
ObjectOf(props) == [kind |-> "object", items |-> props]

\* The items of an array or the characters of a string, in order.
ItemsInOrder(o) ==
  IF o.kind = "string" THEN [i \in DOMAIN o.items |-> Str(<<o.items[i]>>)]
  ELSE o.items

\* The order a Set keeps: each value where it was first inserted.
RECURSIVE InsertionOrder(_)
InsertionOrder(s) ==
  IF s = <<>> THEN <<>>
  ELSE LET front == InsertionOrder(SubSeq(s, 1, Len(s) - 1))
       IN IF s[Len(s)] \in SeqToSet(front) THEN front ELSE Append(front, s[Len(s)])

\* [...conf.columns]: new Set(ids.concat(primaryKey)), then union(columns).
ColumnOrder(primaryKey, ids, columns) ==
  InsertionOrder(ItemsInOrder(ConcatKey(OrEmptyArray(ids), primaryKey))
                   \o ItemsInOrder(OrEmptyArray(columns)))

\* ent[name]: undefined when the property is missing or ent is no object.
Get(ent, name) ==
  IF ent.kind = "object" /\ name \in DOMAIN ent.items THEN ent.items[name]
  ELSE Omitted

\* The fields of an instance; a field that was not given is derived.
ParamsEnt(g) ==
  IF g.ent # Omitted THEN g.ent
  ELSE IF g.entities # Omitted /\ g.entities.items # <<>> THEN g.entities.items[1]
  ELSE Omitted
ParamsKeyTruthy(g) ==
  IF g.key \notin {Omitted, NullValue} THEN g.key ELSE g.conf.primaryKey
ParamsKey(g) == IF g.key # Omitted THEN g.key ELSE g.conf.primaryKey
ParamsKval(g) == IF g.kval # Omitted THEN g.kval ELSE Get(ParamsEnt(g), ParamsKey(g))
ParamsColumns(g) == IF g.columns # Omitted THEN g.columns ELSE Arr(g.conf.order)
ParamsValuesOfEveryColumn(g) ==
  IF g.values # Omitted THEN g.values
  ELSE Arr([i \in DOMAIN g.conf.order |-> Get(ParamsEnt(g), g.conf.order[i])])
ParamsValues(g) ==
  IF g.values # Omitted THEN g.values
  ELSE Arr([i \in DOMAIN ParamsColumns(g).items |->
              Get(ParamsEnt(g), ParamsColumns(g).items[i])])

ParamsFields == {"ent", "key", "kval", "columns", "values"}

\* new Params({ conf, ent, entities, key, kval, columns, values })
QueryParameters(g) ==
  [ent |-> ParamsEnt(g), key |-> ParamsKey(g), kval |-> ParamsKval(g),
   columns |-> ParamsColumns(g), values |-> ParamsValues(g)]

NoInstance == [f \in ParamsFields |-> Omitted]

\* The configs, the entities and the fields the instances are made of.
ParamsConfigs ==
  {[primaryKey |-> IdKey, order |-> ColumnOrder(IdKey, ids, Arr(<<Msg, Msg2>>))] :
     ids \in {Arr(<<Uniq>>), Arr(<<IdKey, Uniq>>), Omitted}}
Mocky == ObjectOf((IdKey :> Str(<<"1">>)) @@ (Uniq :> Str(<<"u">>))
                    @@ (Msg :> Str(<<"a">>)) @@ (Msg2 :> NullValue))
Partial == ObjectOf((Msg :> Str(<<"b">>)))
EntArgs == {Omitted, NullValue, Mocky, Partial}
EntitiesArgs == {Omitted, Arr(<<Partial, Mocky>>)}
KeyGiven == {Omitted, NullValue, Uniq}
KvalGiven == {Omitted, NullValue, Str(<<"x">>)}
ColumnsGiven == {Omitted, Arr(<<Msg2, Msg>>), Arr(<<Doh>>)}
ValuesGiven == {Omitted, Arr(<<Str(<<"1">>)>>)}

InitParams ==
  /\ types = DefaultTypeMap
  /\ conf = DefaultConf
  /\ query = DefaultQuery
  /\ hooks = NewHooks
  /\ added = NewHooks
  /\ last = NoCall
  /\ runs = [c \in OneCaller |-> IdleRun]
  /\ pure \in {[fn |-> "params", done |-> FALSE, out |-> NoInstance, reads |-> <<>>,
                 given |-> [conf |-> cf, ent |-> e, entities |-> es, key |-> k,
                            kval |-> kv, columns |-> cs, values |-> vs]] :
                 cf \in ParamsConfigs, e \in EntArgs, es \in EntitiesArgs,
                 k \in KeyGiven, kv \in KvalGiven, cs \in ColumnsGiven,
                 vs \in ValuesGiven}
  /\ entity = NoEntity

\* const params = new Params({ ... })
NewQueryParameters ==
  /\ pure.fn = "params"
  /\ ~pure.done
  /\ pure' = [pure EXCEPT !.done = TRUE, !.out = QueryParameters(pure.given)]
  /\ UNCHANGED <<conf, query, hooks, added, last, runs, entity, types>>

\* params[field], read by a hook, a generator or a transform
ReadField(field) ==
  /\ pure.fn = "params"
  /\ pure.done
  /\ Len(pure.reads) < MaxReads
  /\ pure' = [pure EXCEPT !.reads = Append(@, [field |-> field, value |-> pure.out[field]])]
  /\ UNCHANGED <<conf, query, hooks, added, last, runs, entity, types>>

NextParams ==
  \/ NewQueryParameters
  \/ \E field \in ParamsFields : ReadField(field)

SpecParams == InitParams /\ [][NextParams]_vars

(***************************************************************************)
(* The query pipeline with every awaited promise settling: each callback   *)
(* that returned a promise, hooks.run and the call of the executor. Hooks  *)
(* are added while no run is in flight.                                    *)
(***************************************************************************)
NextQueryFair ==
  \/ \E a1 \in {"before", "after"}, a2 \in HookFns :
       (\A c \in Callers : runs[c].pc = "idle") /\ HooksAdd(a1, a2)
  \/ \E a1 \in {"before", "after", Null} : HooksFlush(a1)
  \/ \E c \in Callers : QueryRun(c)
  \/ \E c \in Callers : HookSettles(c)
  \/ \E c \in Callers : HooksRunSettles(c)
  \/ \E c \in Callers, res \in Responses : PoolQueryResolves(c, res)
  \/ \E c \in Callers : PoolQueryRejects(c)
  \/ \E c \in Callers : Collect(c)

\* A promise that is awaited settles, and the job that continues the
\* function awaiting it is run.
PromisesSettle ==
  \A c \in OneCaller :
    /\ WF_vars(HookSettles(c))
    /\ WF_vars(HooksRunSettles(c))
    /\ WF_vars((\E res \in Responses : PoolQueryResolves(c, res)) \/ PoolQueryRejects(c))

\* A Query whose transform returns or throws, under the default config.
InitQueryFair ==
  /\ types = DefaultTypeMap
  /\ conf = DefaultConf
  /\ query \in {[DefaultQuery EXCEPT !.transform = tf] : tf \in {"boolean", "customThrow"}}
  /\ hooks = NewHooks
  /\ added = NewHooks
  /\ last = NoCall
  /\ runs = [c \in OneCaller |-> IdleRun]
  /\ pure = NoPure
  /\ entity = NoEntity

SpecQueryFair == InitQueryFair /\ [][NextQueryFair]_vars /\ PromisesSettle

(***************************************************************************)
(* Two calls of save() on one entity that is not marked as existing, one   *)
(* by each caller, the second made before, while or after the first is     *)
(* suspended.                                                              *)
(***************************************************************************)
\* The registries with at most one hook, in a sequence of the save Query.
SaveRegistries ==
  {Registered([n \in DefaultQueryNames |-> NewHooks], placed) :
     placed \in UNION {[1..n -> ({"save"} \X {"before", "after"}) \X ChainHooks] :
                         n \in 0..1}}

InitSaveTwice ==
  /\ types = DefaultTypeMap
  /\ conf \in {[SetupResult(FactoryConfig) EXCEPT !.queries = reg] : reg \in SaveRegistries}
  /\ query = DefaultQuery
  /\ hooks = NewHooks
  /\ added = NewHooks
  /\ last = NoCall
  /\ runs = [c \in TwoCallers |-> IdleCall]
  /\ pure = NoPure
  /\ entity = [exists |-> FALSE, props |-> [k \in {IdKey} |-> "k1"]]

NextSaveTwice ==
  \/ \E c \in Callers : EntitySave(c)
  \/ \E c \in Callers : BeforeSettles(c)
  \/ \E c \in Callers, res \in Responses : PoolResolves(c, res)
  \/ \E c \in Callers : PoolRejects(c)
  \/ \E c \in Callers : AfterSettles(c)
  \/ \E c \in Callers : MethodResumes(c)

SpecSaveTwice == InitSaveTwice /\ [][NextSaveTwice]_vars

(***************************************************************************)
(* Two configurations, their default Queries and the hook chains these     *)
(* Queries own. A hook chain is an object: hooks holds the chains          *)
(* constructed so far, and a Query refers to its chain by its position.    *)
(***************************************************************************)
ConfigNames == {"A", "B"}

\* No configuration has been constructed under the name.
Unconstructed == [constructed |-> FALSE, queries |-> <<>>]

\* Query.default(): each new PerseestQuery does this.hooks = new Hooks(),
\* so the four Queries refer to four chains that did not exist before.
DefaultRefsShared(heap) == [save |-> 1, fetch |-> 2, update |-> 3, delete |-> 4]
DefaultRefs(heap) ==
  [save |-> Len(heap) + 1, fetch |-> Len(heap) + 2,
   update |-> Len(heap) + 3, delete |-> Len(heap) + 4]

\* The number of callbacks registered in all the chains.
RECURSIVE HeapCount(_)
HeapCount(heap) ==
  IF heap = <<>> THEN 0
  ELSE Len(Head(heap).before) + Len(Head(heap).after) + HeapCount(Tail(heap))

\* new PerseestConfig(table, primaryKey, { ids, columns })
ConstructConfig(k) ==
  /\ ~conf[k].constructed
  /\ conf' = [conf EXCEPT ![k] = [constructed |-> TRUE, queries |-> DefaultRefs(hooks)]]
  /\ hooks' = hooks \o <<NewHooks, NewHooks, NewHooks, NewHooks>>
  /\ last' = [op |-> "new", via |-> k, a1 |-> Null, a2 |-> Null, a3 |-> Null,
              threw |-> FALSE]
  /\ UNCHANGED <<query, added, runs, pure, entity, types>>

\* conf.addHook(when, trigger, hook), conf being the configuration named k
ViaAddHook(k, when, trigger, hook) ==
  /\ conf[k].constructed
  /\ IF AddHookThrows(conf[k], when, trigger, hook)
       THEN /\ UNCHANGED <<hooks, added>>
            /\ last' = [op |-> "addHook", via |-> k, a1 |-> when, a2 |-> trigger,
                        a3 |-> hook, threw |-> TRUE]
       ELSE /\ HeapCount(hooks) < MaxHooks
            /\ hooks' = [hooks EXCEPT ![conf[k].queries[trigger]] = AddResult(@, when, hook)]
            /\ added' = [added EXCEPT ![k][trigger] = AddedBy(@, when, hook)]
            /\ last' = [op |-> "addHook", via |-> k, a1 |-> when, a2 |-> trigger,
                        a3 |-> hook, threw |-> FALSE]
  /\ UNCHANGED <<conf, query, runs, pure, entity, types>>

\* conf.flushHooks(when, trigger), conf being the configuration named k
ViaFlushHooks(k, when, trigger) ==
  /\ conf[k].constructed
  /\ IF FlushHooksThrows(conf[k], when, trigger)
       THEN /\ UNCHANGED <<hooks, added>>
            /\ last' = [op |-> "flushHooks", via |-> k, a1 |-> when, a2 |-> trigger,
                        a3 |-> Null, threw |-> TRUE]
       ELSE LET names == IF Truthy(trigger) THEN {trigger} ELSE DOMAIN conf[k].queries
                refs == {conf[k].queries[n] : n \in names}
            IN /\ hooks' = [r \in DOMAIN hooks |->
                              IF r \in refs THEN FlushResult(hooks[r], when) ELSE hooks[r]]
               /\ added' = [added EXCEPT ![k] =
                              [n \in DOMAIN @ |->
                                 IF n \in names THEN FlushResult(@[n], when) ELSE @[n]]]
               /\ last' = [op |-> "flushHooks", via |-> k, a1 |-> when, a2 |-> trigger,
                           a3 |-> Null, threw |-> FALSE]
  /\ UNCHANGED <<conf, query, runs, pure, entity, types>>

\* conf.queries.get(name).run(params), conf being the configuration named k:
\* the callbacks hooks.run('before') and hooks.run('after') invoke when none
\* of them fails.
RunThrough(k, name) ==
  /\ conf[k].constructed
  /\ last' = [op |-> "run", via |-> k, a1 |-> name, a2 |-> Null, a3 |-> Null,
              threw |-> FALSE, invoked |-> hooks[conf[k].queries[name]]]
  /\ UNCHANGED <<conf, query, hooks, added, runs, pure, entity, types>>

\* The arguments tried, and the callbacks registered: none of them fails.
ViaWhen == {"before", "after", Null}
ViaTrigger == {"save", "fetch", Null}
ViaHook == {"syncOk"}

InitTwoConfigs ==
  /\ types = DefaultTypeMap
  /\ conf = [k \in ConfigNames |-> Unconstructed]
  /\ query = DefaultQuery
  /\ hooks = <<>>
  /\ added = [k \in ConfigNames |-> [n \in DefaultQueryNames |-> NewHooks]]
  /\ last = NoCall
  /\ runs = [c \in OneCaller |-> IdleRun]
  /\ pure = NoPure
  /\ entity = NoEntity

NextTwoConfigs ==
  \/ \E k \in ConfigNames : ConstructConfig(k)
  \/ \E k \in ConfigNames, when \in ViaWhen, trigger \in ViaTrigger, hook \in ViaHook :
       ViaAddHook(k, when, trigger, hook)
  \/ \E k \in ConfigNames, when \in ViaWhen, trigger \in ViaTrigger :
       ViaFlushHooks(k, when, trigger)
  \/ \E k \in ConfigNames, name \in {"save", "fetch"} : RunThrough(k, name)

SpecTwoConfigs == InitTwoConfigs /\ [][NextTwoConfigs]_vars

(***************************************************************************)
(* Reading the log of a run                                                *)
(***************************************************************************)
HookEvs == {"call", "return", "settle", "throw", "reject"}
IsHookEv(e) == e.ev \in HookEvs
HookLog(r) == SelectSeq(r.log, IsHookEv)

\* The positions of the events named e in the log of r.
At(r, e) == {i \in DOMAIN r.log : r.log[i].ev = e}

\* The positions of the hook events of sequence t in the log of r.
HookAt(r, t) == {i \in DOMAIN r.log : IsHookEv(r.log[i]) /\ r.log[i].t = t}

\* The callbacks of sequence t that r has invoked, in the order of the calls.
CallsOf(r, t) ==
  LET IsCall(e) == e.ev = "call" /\ e.t = t
      sel == SelectSeq(r.log, IsCall)
  IN [i \in DOMAIN sel |-> sel[i].h]

\* The callback throws, or returns a promise that rejects.
Fails(f) ==
  \/ HookCall(f) = "throw"
  \/ HookCall(f) = "promise" /\ PromiseOutcome(f) = "reject"

IsPrefix(s, t) == Len(s) <= Len(t) /\ \A i \in DOMAIN s : s[i] = t[i]

\* The positions of the calls of failing callbacks of sequence t.
FailingCallAt(r, t) ==
  {i \in DOMAIN r.log : r.log[i].ev = "call" /\ r.log[i].t = t /\ Fails(r.log[i].h)}

\* Every callback r has invoked has returned and, if it returned a promise,
\* that promise has resolved.
AllFinished(r) ==
  LET hl == HookLog(r)
  IN hl = <<>> \/ hl[Len(hl)].ev = "settle"
       \/ (hl[Len(hl)].ev = "return" /\ HookCall(hl[Len(hl)].h) = "value")

(***************************************************************************)
(* Claims                                                                  *)
(***************************************************************************)

\* C1: a Query.run that resolved has set params.query, run the before-hooks
\* to completion, evaluated generate and called the executor, set params.res,
\* applied the transform into params.ret, run the after-hooks to completion
\* and resolved with params.ret, each once and in this order; in any state
\* the executor call follows every before-hook event and every after-hook
\* event follows the transform.
QueryRunOrder ==
  \A c \in Callers :
    LET r == runs[c]
        NotHook(e) == ~IsHookEv(e)
        core == SelectSeq(r.log, NotHook)
    IN r.kind = "query" =>
         /\ \A i \in At(r, "execute") : \A j \in HookAt(r, "before") : j < i
         /\ \A j \in HookAt(r, "after") : \E i \in At(r, "setRet") : i < j
         /\ \A i \in At(r, "execute") :
              AllFinished([r EXCEPT !.log = SubSeq(r.log, 1, i)])
         /\ r.pc = "resolved" =>
              /\ [i \in DOMAIN core |-> core[i].ev] =
                   <<"setQuery", "generate", "execute", "setRes", "transform", "setRet">>
              /\ r.pquery = query.name
              /\ AllFinished(r)
              /\ r.raced = 0 =>
                   /\ CallsOf(r, "before") = hooks.before
                   /\ CallsOf(r, "after") = hooks.after
              /\ r.res \in Responses
              /\ r.ret # Unset
              /\ r.value = r.ret

QueryRunOrderWitness ==
  \E c \in Callers :
    /\ runs[c].kind = "query"
    /\ runs[c].pc = "resolved"
    /\ CallsOf(runs[c], "before") = <<"asyncOk">>
    /\ CallsOf(runs[c], "after") = <<"syncOk">>

\* C2: hooks.run invokes the callbacks of a sequence in the order of the
\* array and one at a time: a callback is invoked only when the one invoked
\* before it has returned and, if that one returned a promise, the promise
\* has resolved.
HooksRunSequential ==
  \A c \in Callers :
    LET r == runs[c]
        hl == HookLog(r)
    IN /\ \A i \in DOMAIN hl :
            hl[i].ev = "call" /\ i > 1 =>
              \/ hl[i - 1].ev = "settle"
              \/ hl[i - 1].ev = "return" /\ HookCall(hl[i - 1].h) = "value"
       /\ \A i \in DOMAIN hl :
            hl[i].ev # "call" =>
              /\ i > 1
              /\ hl[i - 1].h = hl[i].h /\ hl[i - 1].t = hl[i].t
              /\ hl[i - 1].ev = (IF hl[i].ev \in {"return", "throw"} THEN "call" ELSE "return")
       /\ r.raced = 0 =>
            \A t \in {"before", "after"} : IsPrefix(CallsOf(r, t), hooks[t])

HooksRunSequentialWitness ==
  \E c \in Callers :
    /\ runs[c].kind = "hooks"
    /\ runs[c].pc = "resolved"
    /\ CallsOf(runs[c], "before") = <<"asyncOk", "syncOk">>

\* C3: once a callback that throws or whose promise rejects has been invoked,
\* no other callback of that run is invoked (for a run of both sequences, no
\* after-callback follows a failing before-callback), and run rejects with
\* the error of that callback.
HooksRunFailFast ==
  \A c \in Callers :
    LET r == runs[c]
    IN \A i \in DOMAIN r.log :
         r.log[i].ev = "call" /\ Fails(r.log[i].h) =>
           /\ \A j \in DOMAIN r.log : j > i => r.log[j].ev # "call"
           /\ r.kind = "hooks" =>
                \/ r.pc = "awaitHook" /\ HookCall(r.log[i].h) = "promise"
                \/ r.pc = "rejected" /\ r.err = HookError(r.log[i].h)

HooksRunFailFastWitness ==
  \E c \in Callers :
    /\ runs[c].kind = "hooks"
    /\ runs[c].pc = "rejected"
    /\ RunWhenArg(runs[c].a1, runs[c].a2) = Null
    /\ hooks.before = <<"asyncReject">>
    /\ hooks.after # <<>>
    /\ CallsOf(runs[c], "before") = <<"asyncReject">>

\* C4: when a before-hook of a Query throws or rejects, the run is never
\* resolved: it rejects, and generate, the executor, the transform and the
\* after-hooks are not reached.
BeforeHookFailureAborts ==
  \A c \in Callers :
    LET r == runs[c]
    IN r.kind = "query" /\ FailingCallAt(r, "before") # {} =>
         /\ r.pc \in {"awaitHook", "awaitHooksRun", "rejected"}
         /\ At(r, "generate") = {} /\ At(r, "execute") = {}
         /\ At(r, "transform") = {} /\ At(r, "setRes") = {}
         /\ HookAt(r, "after") = {}
         /\ r.res = NoRes /\ r.ret = Unset

BeforeHookFailureAbortsWitness ==
  \E c \in Callers :
    /\ runs[c].kind = "query"
    /\ runs[c].pc = "rejected"
    /\ FailingCallAt(runs[c], "before") # {}
    /\ hooks.after # <<>>

\* The error conf.pgError2Error returns for e, by the kind of normalizer the
\* config holds.
Normalized(e) == [e EXCEPT !.norm = (conf.pgError2Error = "custom")]

\* C5: when the executor rejects with e, the run rejects with
\* conf.pgError2Error(e); the transform and the after-hooks are skipped, the
\* executor has been called once, and nothing runs after the rejection but
\* the normalizer (the before-hooks already run are not compensated).
ExecutorFailureNormalized ==
  \A c \in Callers :
    LET r == runs[c]
    IN \A i \in At(r, "queryRejected") :
         /\ r.pc = "rejected"
         /\ r.err = Normalized(DbErr)
         /\ At(r, "transform") = {} /\ HookAt(r, "after") = {}
         /\ Cardinality(At(r, "execute")) = 1
         /\ r.res = NoRes /\ r.ret = Unset
         /\ SubSeq(r.log, i + 1, Len(r.log)) = <<Ev("pgError2Error", "db", "-")>>
         /\ r.raced = 0 => CallsOf(r, "before") = hooks.before

ExecutorFailureNormalizedWitness ==
  \E c \in Callers :
    /\ At(runs[c], "queryRejected") # {}
    /\ conf.pgError2Error = "custom"
    /\ CallsOf(runs[c], "before") # <<>>
    /\ hooks.after # <<>>

\* C6: when a before-hook, the transform or an after-hook throws e, the run
\* rejects with e itself and conf.pgError2Error is not applied to it.
HookErrorsNotNormalized ==
  \A c \in Callers :
    LET r == runs[c]
    IN r.kind = "query" /\ r.pc = "rejected" /\ r.err.src \in {"hook", "transform"} =>
         /\ r.err.norm = FALSE
         /\ At(r, "pgError2Error") = {}

\* C7: when an after-hook throws or rejects, the run is never resolved: it
\* rejects; the executor has been called once, no later after-hook is
\* invoked, and params.res and params.ret are still the executor's response
\* and its transform.
AfterHookFailureRejects ==
  \A c \in Callers :
    LET r == runs[c]
    IN r.kind = "query" =>
         \A i \in FailingCallAt(r, "after") :
           /\ r.pc \in {"awaitHook", "awaitHooksRun", "rejected"}
           /\ r.pc = "rejected" => r.err.src = "hook" /\ r.err.h = r.log[i].h
           /\ Cardinality(At(r, "execute")) = 1
           /\ At(r, "execute") # {} /\ At(r, "setRes") # {}
           /\ \A j \in DOMAIN r.log : j > i => r.log[j].ev # "call"
           /\ r.res \in Responses
           /\ r.ret = ApplyTransform(query.transform, query, conf, r.res)
           /\ r.value = Unset

AfterHookFailureRejectsWitness ==
  \E c \in Callers :
    /\ runs[c].kind = "query"
    /\ runs[c].pc = "rejected"
    /\ hooks.after = <<"syncThrow", "syncOk">>
    /\ CallsOf(runs[c], "after") = <<"syncThrow">>

\* What hooks.run selects, by its arguments as given.
WhenOmitted(r) == r.a1 = Null \/ (r.a1 = ParamsObj /\ r.a2 = Null)

\* The part of C8 that does not depend on what an invalid `when` is.
SelectiveRun(r) ==
  /\ r.a1 = "before" => HookAt(r, "after") = {}
  /\ r.a1 = "after" => HookAt(r, "before") = {}
  /\ r.a1 \in {"before", "after"} /\ r.pc = "resolved" /\ r.raced = 0 =>
       CallsOf(r, r.a1) = hooks[r.a1]
  /\ WhenOmitted(r) =>
       /\ \A i \in HookAt(r, "before") : \A j \in HookAt(r, "after") : i < j
       /\ HookAt(r, "after") # {} /\ r.raced = 0 =>
            /\ CallsOf(r, "before") = hooks.before
            /\ AllFinished([r EXCEPT !.log =
                 SubSeq(r.log, 1, (CHOOSE j \in HookAt(r, "after") :
                                      \A k \in HookAt(r, "after") : j <= k) - 1)])
       /\ r.pc = "resolved" /\ r.raced = 0 =>
            /\ CallsOf(r, "before") = hooks.before
            /\ CallsOf(r, "after") = hooks.after

RejectsUncalled(r) == r.pc = "rejected" /\ r.err = TypeErr /\ r.log = <<>>

\* C8 as stated: run('before') invokes only before-callbacks, run('after')
\* only after-callbacks, run without `when` (or with the params object as its
\* only argument) every before-callback and then every after-callback, and
\* run with any `when` that is given and is not 'before' or 'after' rejects
\* without invoking a callback.
SelectiveRunAnyGivenWhen ==
  \A c \in Callers :
    LET r == runs[c]
    IN r.kind = "hooks" =>
         /\ SelectiveRun(r)
         /\ ~WhenOmitted(r) /\ r.a1 \notin {"before", "after"} => RejectsUncalled(r)

\* C8 as amended: the same, where the `when` that makes run reject is a
\* truthy value other than 'before' and 'after'; a falsy `when` that is
\* given (the empty string) selects both sequences, as an omitted one does.
SelectiveRunTruthyWhen ==
  \A c \in Callers :
    LET r == runs[c]
    IN r.kind = "hooks" =>
         /\ SelectiveRun(r)
         /\ ~WhenOmitted(r) /\ r.a1 \notin {"before", "after", EmptyStr} =>
              RejectsUncalled(r)
         /\ r.a1 = EmptyStr =>
              /\ \A i \in HookAt(r, "before") : \A j \in HookAt(r, "after") : i < j
              /\ r.pc = "resolved" /\ r.raced = 0 =>
                   /\ CallsOf(r, "before") = hooks.before
                   /\ CallsOf(r, "after") = hooks.after

SelectiveRunWitness ==
  \E c \in Callers :
    /\ runs[c].kind = "hooks"
    /\ runs[c].pc = "resolved"
    /\ runs[c].a1 = ParamsObj /\ runs[c].a2 = Null
    /\ CallsOf(runs[c], "before") = <<"asyncOk">>
    /\ CallsOf(runs[c], "after") = <<"syncOk">>

\* C9: after any sequence of add and flush calls each sequence holds exactly
\* the callbacks added to it since it was last flushed, in the order of the
\* add calls, and a run started afterwards invokes them in that order.
SequencesAreAddHistory ==
  /\ hooks = added
  /\ \A c \in Callers :
       LET r == runs[c]
       IN r.raced = 0 =>
            /\ \A t \in {"before", "after"} : IsPrefix(CallsOf(r, t), added[t])
            /\ r.pc = "resolved" =>
                 \A t \in {"before", "after"} :
                   HookAt(r, t) # {} \/ r.kind = "query" \/ WhenOmitted(r) \/ r.a1 = t
                     => CallsOf(r, t) = added[t]

SequencesAreAddHistoryWitness ==
  /\ added.before = <<"asyncOk", "syncOk">>
  /\ \E c \in Callers :
       runs[c].pc = "resolved" /\ CallsOf(runs[c], "before") = <<"asyncOk", "syncOk">>

\* C10: add('before', cb) appends cb to the before sequence and leaves the
\* after sequence as it is, add('after', cb) the other way round, add(cb)
\* appends cb to both; add removes and reorders nothing.
AddAppends ==
  [][last'.op = "add" /\ ~last'.threw =>
       LET a1 == last'.a1
           a2 == last'.a2
       IN /\ a1 = "before" /\ a2 \in HookFns =>
               hooks'.before = Append(hooks.before, a2) /\ hooks'.after = hooks.after
          /\ a1 = "after" /\ a2 \in HookFns =>
               hooks'.after = Append(hooks.after, a2) /\ hooks'.before = hooks.before
          /\ a1 \in HookFns /\ a2 = Null =>
               /\ hooks'.before = Append(hooks.before, a1)
               /\ hooks'.after = Append(hooks.after, a1)
          /\ \A t \in {"before", "after"} : IsPrefix(hooks[t], hooks'[t])]_vars

AddAppendsWitness ==
  /\ last = [op |-> "add", a1 |-> "before", a2 |-> "syncOk", threw |-> FALSE]
  /\ hooks.before = <<"asyncOk", "syncOk">>
  /\ hooks.after = <<>>

\* The callback of an add call, by its arguments as passed: add(when, hook),
\* or add(hook) with the hook as the only argument.
CallbackGiven(call) == IF call.a2 = Null THEN call.a1 ELSE call.a2

\* The `when` of add(when, hook) is given: the call has two arguments and
\* the first is neither undefined nor null.
WhenGiven(call) == call.a2 # Null /\ call.a1 # Null

\* The part of C11 that does not depend on what an invalid `when` is: add
\* with a callback that is no function fails, and a failed add leaves both
\* sequences as they were.
AddFailure(call, h, hh) ==
  /\ CallbackGiven(call) \notin HookFns => call.threw
  /\ call.threw => hh = h

\* C11 as stated: add fails whenever `when` is given and is not 'before' or
\* 'after', and whenever the callback is not a function; a failed add leaves
\* both sequences unchanged.
AddFailsOnAnyGivenWhen ==
  [][last'.op = "add" =>
       /\ AddFailure(last', hooks, hooks')
       /\ WhenGiven(last') /\ last'.a1 \notin {"before", "after"} => last'.threw]_vars

\* C11 as amended: add fails whenever `when` is a truthy value other than
\* 'before' and 'after', and whenever the callback is not a function; a
\* failed add leaves both sequences unchanged; add with a falsy `when` that
\* is given (the empty string) and a function does not fail and appends the
\* function to both sequences.
AddFailsOnTruthyInvalidWhen ==
  [][last'.op = "add" =>
       /\ AddFailure(last', hooks, hooks')
       /\ WhenGiven(last') /\ last'.a1 \notin {"before", "after", EmptyStr} => last'.threw
       /\ last'.a1 = EmptyStr /\ last'.a2 \in HookFns =>
            /\ ~last'.threw
            /\ \A t \in {"before", "after"} : hooks'[t] = Append(hooks[t], last'.a2)]_vars

AddFailsWitness ==
  /\ last = [op |-> "add", a1 |-> BadWhen, a2 |-> "syncOk", threw |-> TRUE]
  /\ hooks.before # <<>>
  /\ hooks.after # <<>>

\* The part of C12 that does not depend on what an invalid `when` is:
\* flush() empties both sequences, flush('before') empties the before
\* sequence and leaves the after sequence as it was, flush('after') the
\* other way round, and a failed flush leaves both as they were.
FlushEffect(call, h, hh) ==
  /\ call.a1 = Null => ~call.threw /\ hh = [before |-> <<>>, after |-> <<>>]
  /\ call.a1 = "before" => ~call.threw /\ hh = [before |-> <<>>, after |-> h.after]
  /\ call.a1 = "after" => ~call.threw /\ hh = [before |-> h.before, after |-> <<>>]
  /\ call.threw => hh = h

\* C12 as stated: the effects above, and flush with any `when` that is given
\* and is not 'before' or 'after' fails.
FlushFailsOnAnyGivenWhen ==
  [][last'.op = "flush" =>
       /\ FlushEffect(last', hooks, hooks')
       /\ last'.a1 \notin {Null, "before", "after"} => last'.threw]_vars

\* C12 as amended: the effects above, and flush fails with a truthy `when`
\* other than 'before' and 'after'; flush with a falsy `when` that is given
\* (the empty string) does not fail and empties both sequences.
FlushFailsOnTruthyInvalidWhen ==
  [][last'.op = "flush" =>
       /\ FlushEffect(last', hooks, hooks')
       /\ last'.a1 \notin {Null, "before", "after", EmptyStr} => last'.threw
       /\ last'.a1 = EmptyStr =>
            ~last'.threw /\ hooks' = [before |-> <<>>, after |-> <<>>]]_vars

FlushEffectWitness ==
  /\ last = [op |-> "flush", a1 |-> "before", a2 |-> Null, threw |-> FALSE]
  /\ hooks.before = <<>>
  /\ hooks.after # <<>>

\* The sequences a call of hooks.run selects, by its arguments as given.
Selects(r, t) == WhenOmitted(r) \/ r.a1 = EmptyStr \/ r.a1 = t

\* The last sequence a call of hooks.run iterates.
LastSelected(r) == IF r.a1 = "before" THEN "before" ELSE "after"

\* C13 as stated: a run invokes only callbacks that were in the sequence
\* when it started, whatever is added while it is suspended, and a run that
\* resolved with no sequence flushed meanwhile has invoked exactly those.
AddInvisibleToRun ==
  \A c \in Callers :
    LET r == runs[c]
    IN r.kind = "hooks" =>
         /\ \A t \in {"before", "after"} : IsPrefix(CallsOf(r, t), r.snap[t])
         /\ r.pc = "resolved" /\ ~r.flushed =>
              \A t \in {"before", "after"} : Selects(r, t) => CallsOf(r, t) = r.snap[t]

\* C13 as amended: a run reads the sequences as they are when its iterator
\* reaches them.  With no sequence flushed meanwhile, the callbacks a run has
\* invoked are the head of the current sequence; a run that resolved has
\* invoked the callbacks that were in each selected sequence when it
\* started, followed by callbacks added while it was suspended, and it has
\* invoked every callback of the last sequence it iterates, those added
\* while it was suspended included.
AddVisibleToRun ==
  \A c \in Callers :
    LET r == runs[c]
    IN r.kind = "hooks" /\ ~r.flushed =>
         /\ \A t \in {"before", "after"} : IsPrefix(CallsOf(r, t), hooks[t])
         /\ r.pc = "resolved" =>
              /\ \A t \in {"before", "after"} :
                   Selects(r, t) => IsPrefix(r.snap[t], CallsOf(r, t))
              /\ CallsOf(r, LastSelected(r)) = hooks[LastSelected(r)]
         /\ r.raced = 0 => r.snap = hooks

AddVisibleToRunWitness ==
  \E c \in Callers :
    /\ runs[c].kind = "hooks"
    /\ runs[c].pc = "resolved"
    /\ ~runs[c].flushed
    /\ runs[c].snap.before = <<"asyncOk">>
    /\ CallsOf(runs[c], "before") = <<"asyncOk", "syncOk">>

\* What a Query.run has done with the params of its caller p: every step
\* recorded is a step of this run on p, the statement executed was generated
\* from p, params.res is a response the executor gave to that statement, and
\* a run that resolved has gone through the whole pipeline once and resolved
\* with the transform of its own response.
OwnPipeline(r, p) ==
  LET NotHook(e) == ~IsHookEv(e)
      core == SelectSeq(r.log, NotHook)
  IN /\ r.a1 = p
     /\ r.pquery = query.name
     /\ r.stmt # NoStmt => r.stmt = [text |-> "sql", of |-> p] /\ At(r, "generate") # {}
     /\ r.res # NoRes => r.stmt # NoStmt /\ r.res \in Responses /\ At(r, "setRes") # {}
     /\ r.ret # Unset => r.ret = ApplyTransform(query.transform, query, conf, r.res)
     /\ \A t \in {"before", "after"} : IsPrefix(CallsOf(r, t), hooks[t])
     /\ r.pc = "resolved" =>
          /\ [i \in DOMAIN core |-> core[i].ev] =
               <<"setQuery", "generate", "execute", "setRes", "transform", "setRet">>
          /\ CallsOf(r, "before") = hooks.before
          /\ CallsOf(r, "after") = hooks.after
          /\ r.value = ApplyTransform(query.transform, query, conf, r.res)

\* A step of a run changes the params and the position of that run only.
RunStepFrame ==
  last'.op = "-" =>
    /\ query' = query /\ conf' = conf /\ hooks' = hooks
    /\ \A c \in Callers : \A d \in Callers \ {c} :
         runs'[c] # runs[c] => runs'[d] = runs[d]

\* C14: in any interleaving of two Query.run calls on one Query with
\* distinct params, each call works on its own params only (hooks, generator
\* and transform get that object, params.res is the response to its own
\* statement, the call resolves with the transform of its own response), and
\* no step of a run modifies the Query, the sequences of its hooks, or the
\* other call's params.
ConcurrentRunsIsolated ==
  /\ [](\A c \in Callers : runs[c].kind = "query" => OwnPipeline(runs[c], ParamsOf(c)))
  /\ [](hooks = added /\ query.name = "q" /\ query.transform \in SharedTransforms)
  /\ [][RunStepFrame]_vars

ConcurrentRunsIsolatedWitness ==
  /\ Callers = TwoCallers
  /\ hooks.before = <<"asyncOk">>
  /\ hooks.after = <<"asyncOk">>
  /\ query.transform = "boolean"
  /\ runs["c1"].pc = "resolved" /\ runs["c1"].res = MkRes(<<>>)
  /\ runs["c1"].value = Bool(FALSE)
  /\ runs["c2"].pc = "resolved" /\ runs["c2"].res = MkRes(<<"r1", "r2">>)
  /\ runs["c2"].value = Bool(TRUE)

\* An argument of the constructor is given: it is neither undefined nor null.
Given(v) == v # Null

\* The part of C15 that does not depend on what a given transform or type
\* is: construction fails with a name that is no string or does not match
\* ^[a-zA-Z_][a-zA-Z0-9_]*$, and with a generator that is no function.
BadNameOrGenerator(call) ==
  \/ ~call.name.isString
  \/ call.name.chars = <<>>
  \/ call.name.chars[1] \notin {"a", "z", "A", "Z", "_"}
  \/ \E i \in 2..Len(call.name.chars) :
       call.name.chars[i] \notin {"a", "z", "A", "Z", "0", "9", "_"}
  \/ call.generate \notin HookFns

\* C15 as stated: construction fails with a bad name or generator, with a
\* transform that is given and is no function, with both transform and type
\* given, with a type that is given and is no string, and with a type that
\* names no registered transform; with a good name and generator and at most
\* one of a function transform and a registered type, it succeeds.
ConstructFailsOnAnyGiven ==
  pure.fn = "construct" /\ pure.done =>
    /\ BadNameOrGenerator(pure) => ~pure.out.ok
    /\ Given(pure.transform) /\ pure.transform \notin HookFns => ~pure.out.ok
    /\ Given(pure.transform) /\ Given(pure.type) => ~pure.out.ok
    /\ Given(pure.type) /\ pure.type \notin {"singular", "multiple", "boolean"} => ~pure.out.ok
    /\ ( /\ ~BadNameOrGenerator(pure)
         /\ \/ ~Given(pure.transform) /\ ~Given(pure.type)
            \/ pure.transform \in HookFns /\ ~Given(pure.type)
            \/ ~Given(pure.transform) /\ pure.type \in {"singular", "multiple", "boolean"} )
         => pure.out.ok

\* C15 as amended: the same where a transform or type counts as given when
\* it is truthy; a falsy one (undefined, null, the empty string) is ignored.
\* A constructed Query has the name and generator given, the transform given
\* or the one registered under the type, and empty hooks.
ConstructFailsOnTruthyInvalid ==
  pure.fn = "construct" /\ pure.done =>
    LET tf == pure.transform \notin {Null, EmptyStr}
        ty == pure.type \notin {Null, EmptyStr}
        fails == \/ BadNameOrGenerator(pure)
                 \/ tf /\ pure.transform \notin HookFns
                 \/ tf /\ ty
                 \/ ty /\ pure.type \notin {"singular", "multiple", "boolean"}
    IN /\ pure.out.ok = ~fails
       /\ pure.out.ok =>
            /\ pure.out.name = pure.name
            /\ pure.out.generate = pure.generate
            /\ pure.out.transform = (IF ty THEN pure.type ELSE pure.transform)
            /\ pure.out.hooks = [before |-> <<>>, after |-> <<>>]

ConstructWitness ==
  /\ pure.fn = "construct" /\ pure.done
  /\ pure.name = NameStr(<<"_", "0">>)
  /\ pure.type = "boolean" /\ pure.transform = Null
  /\ pure.out.ok /\ pure.out.transform = "boolean"

\* The entity conf.row2Entity makes of a row.
EntityOf(row) ==
  IF conf.row2Entity = "identity" THEN row ELSE (IF row = "r1" THEN "e1" ELSE "e2")

\* The run has received a response of two rows.
GotTwoRows(r) == r.kind = "query" /\ r.res # NoRes /\ Len(r.res.rows) = 2

SingularTakesFirstRow ==
  /\ query.name = "fetch" => query.transform = "singular"
  /\ \A c \in Callers :
       LET r == runs[c]
       IN r.kind = "query" /\ query.transform = "singular" /\ r.res # NoRes =>
            /\ r.pc # "rejected"
            /\ r.ret = (IF Len(r.res.rows) = 0 THEN NullVal
                        ELSE Entity(EntityOf(r.res.rows[1])))
            /\ r.pc = "resolved" => r.value = r.ret

SingularTakesFirstRowWitness ==
  \E c \in Callers :
    /\ query.name = "fetch"
    /\ conf.row2Entity = "custom"
    /\ runs[c].pc = "resolved"
    /\ runs[c].res.rows = <<"r1", "r2">>
    /\ runs[c].value = Entity("e1")

\* C18: a Query of type 'multiple' resolves with the entities of the rows of
\* the response, in the order of the rows, and with an empty list for a
\* response without rows.
MultipleMapsEveryRow ==
  \A c \in Callers :
    LET r == runs[c]
    IN r.kind = "query" /\ query.transform = "multiple" /\ r.res # NoRes =>
         /\ r.pc # "rejected"
         /\ r.ret = List([i \in DOMAIN r.res.rows |-> EntityOf(r.res.rows[i])])
         /\ r.pc = "resolved" => r.value = r.ret

\* C19: the 'boolean' transform returns true if and only if rowCount is
\* greater than 0; the default save, update and delete queries have this
\* transform.
BooleanIsRowCountPositive ==
  /\ query.name \in {"save", "update", "delete"} => query.transform = "boolean"
  /\ \A c \in Callers :
       LET r == runs[c]
       IN r.kind = "query" /\ query.transform = "boolean" /\ r.res # NoRes =>
            /\ r.pc # "rejected"
            /\ r.ret = MkVal("bool", r.res.rowCount > 0, <<>>)
            /\ r.pc = "resolved" => r.value = r.ret

BooleanIsRowCountPositiveWitness ==
  \E c \in Callers :
    /\ query.name = "delete"
    /\ runs[c].pc = "resolved"
    /\ runs[c].res = [rows |-> <<>>, rowCount |-> 2]
    /\ runs[c].value = Bool(TRUE)

\* The placeholders in their order of appearance, for up to five values.
PlaceholderNames == <<"$1", "$2", "$3", "$4", "$5">>

\* C20: for every entity and column list c1..cn the save generator gives an
\* INSERT statement whose text names the columns c1..cn in that order before
\* VALUES and then has exactly the placeholders $1..$n from left to right,
\* and whose values are ent[c1]..ent[cn] in that order, so that there are as
\* many placeholders as values.
SaveStatementMatchesColumns ==
  pure.fn = "save" /\ pure.done =>
    LET text == pure.out.text
        n == Len(pure.columns)
        IsColumn(tok) == tok \in {"id", "name", "email"}
        IsPlaceholder(tok) == tok \in {PlaceholderNames[i] : i \in DOMAIN PlaceholderNames}
        IsValues(tok) == tok = ") VALUES ("
        cut == CHOOSE i \in DOMAIN text : IsValues(text[i])
    IN /\ text[1] = "INSERT INTO " /\ text[2] = "Mockies"
       /\ Len(SelectSeq(text, IsValues)) = 1
       /\ SelectSeq(SubSeq(text, 3, cut), IsColumn) = pure.columns
       /\ SelectSeq(SubSeq(text, 1, cut), IsPlaceholder) = <<>>
       /\ SelectSeq(SubSeq(text, cut, Len(text)), IsColumn) = <<>>
       /\ SelectSeq(SubSeq(text, cut, Len(text)), IsPlaceholder) = SubSeq(PlaceholderNames, 1, n)
       /\ Len(pure.out.values) = n
       /\ \A i \in 1..n :
            pure.out.values[i] =
              (IF pure.columns[i] \in DOMAIN pure.ent
                 THEN pure.ent[pure.columns[i]] ELSE "<undefined>")
       /\ Len(SelectSeq(text, IsPlaceholder)) = Len(pure.out.values)

SaveStatementWitness ==
  /\ pure.fn = "save" /\ pure.done
  /\ pure.columns = <<"name", "id">>
  /\ DOMAIN pure.ent = {"id", "name"}
  /\ pure.ent["id"] = "v1" /\ pure.ent["name"] = "v2"
  /\ pure.out.values = <<"v2", "v1">>
  /\ pure.out.text = <<"INSERT INTO ", "Mockies", " (", "name", ", ", "id",
                       ") VALUES (", "$1", ", ", "$2", ")">>

\* C21: for every entity and column list c1..cn the update generator gives
\* a statement that assigns ci to $i for each i, filters on the primary key
\* = $(n+1), and has the values ent[c1]..ent[cn] followed by the value of
\* the primary key: n+1 values for n+1 placeholders.
UpdateStatementMatchesColumns ==
  pure.fn = "update" /\ pure.done =>
    LET text == pure.out.text
        n == Len(pure.columns)
        IsPlaceholder(tok) == tok \in {PlaceholderNames[i] : i \in DOMAIN PlaceholderNames}
        ValueOf(col) == IF col \in DOMAIN pure.ent THEN pure.ent[col]
                     ELSE [isArray |-> FALSE, items |-> <<"<undefined>">>]
    IN /\ text[1] = "UPDATE " /\ text[2] = "Mockies" /\ text[3] = " SET "
       /\ \A i \in 1..n :
            SubSeq(text, 4 * i, 4 * i + 2) = <<pure.columns[i], " = ", PlaceholderNames[i]>>
       /\ SubSeq(text, Len(text) - 4, Len(text)) =
            <<" WHERE ", "id", " = ", PlaceholderNames[n + 1], ";">>
       /\ SelectSeq(text, IsPlaceholder) = SubSeq(PlaceholderNames, 1, n + 1)
       /\ Len(pure.out.values) = n + 1
       /\ \A i \in 1..n : pure.out.values[i] = ValueOf(pure.columns[i])
       /\ pure.out.values[n + 1] = ValueOf("id")

\* C22: a successful addHook(when, trigger, hook) appends hook to the tail
\* of the `when` sequence of the Query named trigger and changes nothing
\* else: the other sequence of that Query, the hooks of every other Query
\* and the rest of the configuration are as before.
AddHookAppendsToOneChain ==
  [][last'.op = "addHook" /\ ~last'.threw =>
       LET when == last'.a1
           trigger == last'.a2
           other == IF when = "before" THEN "after" ELSE "before"
       IN /\ conf'.queries[trigger][when] = Append(conf.queries[trigger][when], last'.a3)
          /\ conf'.queries[trigger][other] = conf.queries[trigger][other]
          /\ \A n \in DOMAIN conf.queries \ {trigger} : conf'.queries[n] = conf.queries[n]
          /\ DOMAIN conf'.queries = DOMAIN conf.queries
          /\ \A f \in DOMAIN conf \ {"queries"} : conf'[f] = conf[f]]_vars

AddHookAppendsWitness ==
  /\ last = [op |-> "addHook", a1 |-> "after", a2 |-> "save", a3 |-> "asyncOk", threw |-> FALSE]
  /\ conf.queries["save"].after = <<"syncOk", "asyncOk">>

Flushed(h, when) ==
  [before |-> IF when \in {Null, "before"} THEN <<>> ELSE h.before,
   after |-> IF when \in {Null, "after"} THEN <<>> ELSE h.after]

\* The effect C24 gives to flushHooks(when, trigger) for a `when` that is
\* omitted, 'before' or 'after': with trigger omitted every Query loses the
\* selected sequence(s); with the name of a Query only that Query does; a
\* failed flushHooks changes no hook chain.
FlushHooksEffect(when, trigger, threw, cf, cff) ==
  /\ trigger = Null /\ when \in {Null, "before", "after"} =>
       /\ ~threw
       /\ \A n \in DOMAIN cf.queries : cff.queries[n] = Flushed(cf.queries[n], when)
  /\ trigger \in {"save", "fetch", "update", "delete"} /\ when \in {Null, "before", "after"} =>
       /\ ~threw
       /\ cff.queries[trigger] = Flushed(cf.queries[trigger], when)
       /\ \A n \in DOMAIN cf.queries \ {trigger} : cff.queries[n] = cf.queries[n]
  /\ threw => cff.queries = cf.queries
  /\ DOMAIN cff.queries = DOMAIN cf.queries

\* C24 as stated: the effect above, and flushHooks fails with any trigger
\* that is given and names no Query and with any `when` that is given and is
\* not 'before' or 'after'.
FlushHooksFailsOnAnyGiven ==
  [][last'.op = "flushHooks" =>
       /\ FlushHooksEffect(last'.a1, last'.a2, last'.threw, conf, conf')
       /\ \/ last'.a2 \notin {Null, "save", "fetch", "update", "delete"}
          \/ last'.a1 \notin {Null, "before", "after"}
          => last'.threw]_vars

\* A falsy argument is read as an omitted one.
AsOmitted(v) == IF v = EmptyStr THEN Null ELSE v

\* C24 as amended: the effect above, where a falsy trigger or `when` that is
\* given (the empty string) counts as omitted; flushHooks fails with a
\* truthy trigger that names no Query and with a truthy `when` other than
\* 'before' and 'after'.
FlushHooksFailsOnTruthyInvalid ==
  [][last'.op = "flushHooks" =>
       /\ FlushHooksEffect(AsOmitted(last'.a1), AsOmitted(last'.a2), last'.threw, conf, conf')
       /\ \/ last'.a2 \notin {Null, EmptyStr, "save", "fetch", "update", "delete"}
          \/ last'.a1 \notin {Null, EmptyStr, "before", "after"}
          => last'.threw]_vars

FlushHooksWitness ==
  /\ last = [op |-> "flushHooks", a1 |-> "before", a2 |-> "save", a3 |-> Null, threw |-> FALSE]
  /\ conf.queries["save"].after # <<>>
  /\ conf.queries["fetch"].before # <<>>

\* The steps of the call that were handed the params.
Steps(r) == {r.log[i] : i \in DOMAIN r.log}

\* C25: every before-hook, the generator, the transform and every
\* after-hook of a run are handed one and the same params object: what a
\* step was handed is what the step before it was handed with the writes
\* made since, so a field written by a hook is seen by every later step;
\* the before-hooks see params.query = the executing Query and no
\* params.res; the after-hooks see the response of the executor in
\* params.res and the result of the transform in params.ret.
ParamsSharedThroughRun ==
  \A c \in Callers :
    LET r == runs[c]
    IN /\ \A i \in DOMAIN r.log :
            LET e == r.log[i]
            IN /\ e.saw.query = r.name
               /\ e.saw.ent = r.params.ent
               /\ e.saw.key = r.params.key
               /\ e.saw.kval = r.params.kval
               /\ e.saw.columns = r.params.columns
               /\ e.step = "hook" /\ e.t = "before" =>
                    e.saw.res = NoRes /\ e.saw.ret = Unset
               /\ e.step = "hook" /\ e.t = "after" =>
                    /\ e.saw.res \in Responses
                    /\ e.saw.res = r.params.res
                    /\ e.saw.ret = r.params.ret
                    /\ r.name \in {"save", "update", "delete"} =>
                         e.saw.ret = Bool(e.saw.res.rowCount > 0)
                    /\ \E j \in 1..(i - 1) :
                         r.log[j].step = "transform" /\ r.log[j].saw.res = e.saw.res
               /\ \A j \in 1..(i - 1) :
                    r.log[j].step = "hook" /\ r.log[j].h = "writesNote" => e.saw.note = "w"
               /\ (\A j \in 1..(i - 1) : ~(r.log[j].step = "hook" /\ r.log[j].h = "writesNote"))
                    => e.saw.note = Null

ParamsSharedWitness ==
  \E c \in Callers :
    LET r == runs[c]
    IN /\ r.pc = "resolved"
       /\ r.name = "delete"
       /\ Len(r.log) = 5
       /\ r.log[1].step = "hook" /\ r.log[1].t = "before" /\ r.log[1].h = "writesNote"
       /\ r.log[5].step = "hook" /\ r.log[5].t = "after" /\ r.log[5].saw.note = "w"

\* C28: save() on an entity that does not exist runs the 'save' query and
\* marks the entity as existing exactly when the query's result is truthy,
\* that is when the response counts at least one row; save() on an entity
\* that exists does not run the 'save' query, calls update() once and settles
\* as update() does.
SaveRunsOrFallsBack ==
  [][\A c \in Callers :
       LET r == runs[c]
           rr == runs'[c]
       IN /\ r.pc = "idle" /\ rr.op = "save" =>
               /\ ~entity.exists => rr.name = "save" /\ rr.updates = 0
               /\ entity.exists =>
                    /\ rr.name = "update"
                    /\ rr.updates = 1
                    /\ rr.params.columns = SetToSeq(conf.columns)
          /\ r.op = "save" /\ r.name = "save" /\ rr.op = "save" =>
               /\ rr.updates = 0
               /\ entity'.exists <=>
                    /\ rr.pc = "resolved"
                    /\ rr.params.res.rowCount > 0
                    /\ rr.value = Bool(TRUE)
          /\ r.op = "save" /\ r.name = "update" /\ rr.op = "save" =>
               /\ rr.updates = 1
               /\ rr.name = "update"
               /\ \A e \in Steps(rr) : e.saw.query = "update"
               /\ entity' = entity
               /\ rr.pc = "resolved" => rr.value = Bool(rr.params.res.rowCount > 0)
          /\ rr.op # "save" => entity' = entity]_vars

SaveMarksWitness ==
  \E c \in Callers :
    /\ runs[c].op = "save"
    /\ runs[c].name = "save"
    /\ runs[c].pc = "resolved"
    /\ runs[c].value = Bool(TRUE)
    /\ entity.exists

\* The names a call of update is given as column names: the items of the
\* iterable, or the arguments.
GivenColumns(args) ==
  IF args # <<>> /\ args[1].kind \in {"array", "set"} THEN SeqToSet(args[1].items)
  ELSE SeqToSet(args)

\* C29: update given a column name that is not a string or not a column of
\* the configuration, and static fetch and static delete given a key that
\* is no identifier of the configuration, reject without a hook invoked and
\* without the executor called.
ValidationPrecedesPipeline ==
  \A c \in Callers :
    LET r == runs[c]
    IN /\ r.op = "update"
          /\ (\E k \in GivenColumns(r.args) : k.kind # "string" \/ k \notin conf.columns)
          => r.pc = "rejected" /\ r.log = <<>> /\ r.name = Null
       /\ r.op \in {"fetch", "staticDelete"} /\ r.args[1] \notin conf.ids
          => r.pc = "rejected" /\ r.log = <<>> /\ r.name = Null

ValidationWitness ==
  \E c \in Callers :
    /\ runs[c].op = "update"
    /\ runs[c].args = <<[kind |-> "array", items |-> <<Msg, Doh>>]>>
    /\ runs[c].pc = "rejected"
    /\ conf.queries["update"].before # <<>>

\* C30: delete() on an entity that does not exist resolves with false
\* without a hook invoked and without the executor called; on an entity that
\* exists it runs the 'delete' query with key = conf.primaryKey and kval =
\* the entity's primary-key value, and resolves with true exactly when the
\* response counts at least one row.
InstanceDeleteRunsQuery ==
  [][\A c \in Callers :
       LET r == runs[c]
           rr == runs'[c]
       IN /\ r.pc = "idle" /\ rr.op = "delete" =>
               /\ ~entity.exists =>
                    rr.pc = "resolved" /\ rr.value = Bool(FALSE) /\ rr.log = <<>>
               /\ entity.exists =>
                    /\ rr.name = "delete"
                    /\ rr.params.key = conf.primaryKey
                    /\ rr.params.kval = entity.props[conf.primaryKey]
          /\ r.op = "delete" /\ rr.op = "delete" /\ rr.pc = "resolved" /\ rr.name = "delete" =>
               rr.value = Bool(rr.params.res.rowCount > 0)]_vars

\* C26: cleanup never throws or rejects: it resolves with null when closing
\* the pool succeeds and with the error as a value when closing fails, when
\* no pool was set up and when the pool was closed before.
CleanupNeverRejects ==
  \A c \in Callers :
    LET r == runs[c]
    IN r.op = "cleanup" =>
         /\ r.pc \in {"awaitEnd", "resolved"}
         /\ r.pc = "resolved" =>
              \/ r.err.src = "-" /\ r.value = NullVal /\ r.args # <<>>
              \/ r.err.src = "poolEnd" /\ r.value = MkVal("error", FALSE, <<"poolEnd">>)
              \/ /\ r.err.src = "TypeError"
                 /\ r.value = MkVal("error", FALSE, <<"TypeError">>)
                 /\ r.args = <<>>

CleanupTwiceWitness ==
  \E c \in Callers :
    /\ runs[c].op = "cleanup"
    /\ runs[c].pc = "resolved"
    /\ runs[c].args = <<[kind |-> "string", items |-> <<"ended">>]>>
    /\ runs[c].value = MkVal("error", FALSE, <<"poolEnd">>)

\* C27: for every constructed configuration, whatever was set up, cleaned
\* up, hooked, flushed or run since, primaryKey is a member of ids, ids is a
\* subset of columns, and table and primaryKey are non-blank strings.
ConfigInvariants ==
  conf.constructed =>
    /\ conf.primaryKey \in conf.ids
    /\ conf.ids \subseteq conf.columns
    /\ conf.table.kind = "string" /\ conf.table.items # <<>>
    /\ conf.primaryKey.kind = "string" /\ conf.primaryKey.items # <<>>

(***************************************************************************)
(* C31: registering a type fails unless the key is a non-blank string and  *)
(* the value is a function; a failed registration leaves the registry      *)
(* unchanged; registering under an existing key replaces that key's        *)
(* transform and leaves the registry's size unchanged.                     *)
(***************************************************************************)
TypeMapSetChecksKeyAndValue ==
  [][last'.op = "set" =>
       LET key == last'.a1
           value == last'.a2
           valid == IsString(key) /\ key # EmptyStr /\ IsFunction(value)
       IN /\ last'.threw <=> ~valid
          /\ last'.threw => types' = types
          /\ (~last'.threw /\ key \in DOMAIN types) =>
               /\ DOMAIN types' = DOMAIN types
               /\ types'[key] = value
               /\ \A k \in DOMAIN types \ {key} : types'[k] = types[k]]_vars

(***************************************************************************)
(* C34: the type of a Query is resolved to a transform once, when the      *)
(* Query is constructed. Registering a function under a type name changes  *)
(* no Query and no default query set that exists; a Query, and every Query *)
(* of a default query set, constructed afterwards has the function that is *)
(* registered under its type when it is constructed.                       *)
(***************************************************************************)
TypeResolvedAtConstruction ==
  [][/\ last'.op = "set" => query' = query /\ conf' = conf
     /\ (last'.op = "new" /\ ~last'.threw) =>
          /\ query'.ok
          /\ query'.transform = IF Truthy(last'.a1) THEN types[last'.a1] ELSE Null
     /\ last'.op = "default" =>
          \A n \in DefaultQueryNames :
            conf'.queries[n].transform = types[DefaultTypes[n]]]_vars

\* A Query of type 'boolean' constructed before 'boolean' was registered
\* again keeps the transform it had, next to a default query set constructed
\* afterwards, which has the new one.
TypeResolvedWitness ==
  /\ query.ok
  /\ query.transform = DefaultTypeMap["boolean"]
  /\ types["boolean"] # DefaultTypeMap["boolean"]
  /\ conf.queries["save"].transform = types["boolean"]
  /\ last.op = "default"

(***************************************************************************)
(* C32: a QueryParameters instance built from conf and ent alone has the   *)
(* column names of conf in the order the config defines as its columns,    *)
(* and values[i] = ent[columns[i]] for every i; built with columns and     *)
(* without values, values[i] = ent[columns[i]] over the columns given;     *)
(* values that are derived are as many as the columns; and two reads of    *)
(* one field give the same value.                                          *)
(***************************************************************************)
ParamsColumnsAndValues ==
  (pure.fn = "params" /\ pure.done) =>
    LET g == pure.given
        p == pure.out
        onlyConfAndEnt ==
          /\ g.ent.kind = "object"
          /\ \A f \in {"entities", "key", "kval", "columns", "values"} : g[f] = Omitted
    IN /\ onlyConfAndEnt =>
            /\ p.columns.items = g.conf.order
            /\ DOMAIN p.values.items = DOMAIN g.conf.order
            /\ \A i \in DOMAIN g.conf.order :
                 p.values.items[i] = Get(g.ent, g.conf.order[i])
       /\ (g.ent.kind = "object" /\ g.columns # Omitted /\ g.values = Omitted) =>
            /\ p.columns = g.columns
            /\ DOMAIN p.values.items = DOMAIN g.columns.items
            /\ \A i \in DOMAIN g.columns.items :
                 p.values.items[i] = Get(g.ent, g.columns.items[i])
       /\ g.values = Omitted => Len(p.values.items) = Len(p.columns.items)
       /\ \A i, j \in DOMAIN pure.reads :
            pure.reads[i].field = pure.reads[j].field =>
              pure.reads[i].value = pure.reads[j].value

\* The values of an instance built from conf and the entity alone were read
\* twice, and are the entity's properties in the order of the columns.
ParamsColumnsWitness ==
  /\ pure.fn = "params"
  /\ pure.done
  /\ pure.given.ent = Mocky
  /\ \A f \in {"entities", "key", "kval", "columns", "values"} : pure.given[f] = Omitted
  /\ pure.out.columns = Arr(<<Uniq, IdKey, Msg, Msg2>>)
  /\ pure.out.values = Arr(<<Str(<<"u">>), Str(<<"1">>), Str(<<"a">>), NullValue>>)
  /\ Len(pure.reads) = 2
  /\ \A i \in DOMAIN pure.reads : pure.reads[i].field = "values"

FlushReachesSequencesAhead ==
  \A c \in Callers :
    LET r == runs[c]
        Left(t) == Settled(c) \/ (t = "before" /\ r.phase \in {"query", "after"})
    IN r.kind = "query" =>
         /\ \A t \in {"before", "after"} :
              r.fl[t].how = "inside" =>
                /\ IsPrefix(CallsOf(r, t), r.fl[t].arr)
                /\ CallsOf(r, t) # <<>>
                /\ (Left(t) /\ CallsOf(r, t) # r.fl[t].arr) =>
                     Fails(CallsOf(r, t)[Len(CallsOf(r, t))])
                /\ r.pc = "resolved" => CallsOf(r, t) = r.fl[t].arr
         /\ (r.fl.after.how = "ahead" /\ r.raced = 1) => CallsOf(r, "after") = <<>>

\* A Query.run that resolved was suspended in the first of two before-hooks
\* when the before sequence was flushed, and invoked the second one too.
FlushInsideWitness ==
  \E c \in Callers :
    /\ runs[c].kind = "query"
    /\ runs[c].pc = "resolved"
    /\ runs[c].fl.before = [how |-> "inside", arr |-> <<"asyncOk", "syncOk">>]
    /\ CallsOf(runs[c], "before") = <<"asyncOk", "syncOk">>
    /\ hooks.before = <<>>

(***************************************************************************)
(* C36: when every callback invoked returns or settles, the call of the    *)
(* executor settles and no hook is added while a run is in flight, every   *)
(* Query.run settles: it resolves with no error or rejects with an error   *)
(* and no value, never both. While the call of the executor has not        *)
(* settled the run has not settled and has invoked no after-hook.          *)
(***************************************************************************)
QueryRunSettles ==
  /\ [](\A c \in OneCaller :
          LET r == runs[c]
          IN r.kind = "query" =>
               /\ r.pc = "resolved" => r.err = NoErr /\ r.value # Unset
               /\ r.pc = "rejected" => r.err # NoErr /\ r.value = Unset
               /\ r.pc = "awaitQuery" =>
                    /\ ~Settled(c)
                    /\ HookAt(r, "after") = {}
                    /\ r.err = NoErr /\ r.value = Unset)
  /\ \A c \in OneCaller :
       (runs[c].kind = "query" /\ InFlight(c)) ~> Settled(c)

\* A Query.run has resolved after awaiting a before-hook, the executor and
\* an after-hook.
QueryRunSettlesWitness ==
  \E c \in Callers :
    /\ runs[c].kind = "query"
    /\ runs[c].pc = "resolved"
    /\ runs[c].raced = 0
    /\ At(runs[c], "execute") # {}
    /\ CallsOf(runs[c], "before") = <<"asyncOk">>
    /\ CallsOf(runs[c], "after") = <<"asyncOk">>

(***************************************************************************)
(* C37: a save() of an entity whose exists flag is falsy that rejects, for *)
(* whatever reason, leaves the flag falsy, an after-hook failing after the *)
(* INSERT was executed included; the flag is true after save() only if the *)
(* whole pipeline completed and save() returned a truthy result.           *)
(***************************************************************************)
SaveRejectedKeepsExists ==
  \A c \in Callers :
    LET r == runs[c]
    IN (r.op = "save" /\ r.name = "save") =>
         /\ r.pc # "resolved" => ~entity.exists
         /\ r.pc = "rejected" => r.err # NoErr /\ r.value = Unset
         /\ entity.exists =>
              /\ TruthyVal(r.value)
              /\ \E i \in DOMAIN r.log : r.log[i].step = "transform"
              /\ \A i \in DOMAIN r.log : r.log[i].step = "hook" => ~HookFails(r.log[i].h)

\* A save() has rejected because an after-hook failed once the INSERT had
\* been executed, and the entity is still marked as not existing.
SaveRejectedWitness ==
  \E c \in Callers :
    /\ runs[c].op = "save"
    /\ runs[c].name = "save"
    /\ runs[c].pc = "rejected"
    /\ \E i \in DOMAIN runs[c].log : runs[c].log[i].step = "execute"
    /\ \E i \in DOMAIN runs[c].log :
         /\ runs[c].log[i].step = "hook"
         /\ runs[c].log[i].t = "after"
         /\ HookFails(runs[c].log[i].h)
         /\ runs[c].log[i].saw.res.rowCount = 1
    /\ ~entity.exists

(***************************************************************************)
(* C38: the check of exists in save() is not atomic with the insertion. A  *)
(* save() called on an entity while an earlier save() of that entity,      *)
(* which found exists falsy, has not completed, finds exists falsy too:    *)
(* it runs the 'save' query and does not call update(), and each of the    *)
(* two calls that gets to the executor hands it an INSERT of its own.      *)
(***************************************************************************)
SaveTwiceInsertsTwice ==
  [][\A c \in TwoCallers :
       LET r == runs[c]
           rr == runs'[c]
           o == runs[CHOOSE d \in TwoCallers : d # c]
           Executes(x) == {i \in DOMAIN x.log : x.log[i].step = "execute"}
       IN /\ (/\ r.pc = "idle"
              /\ rr.op = "save"
              /\ o.op = "save" /\ o.name = "save"
              /\ o.pc \notin {"resolved", "rejected"}) =>
               /\ ~entity.exists
               /\ rr.name = "save"
               /\ rr.updates = 0
          /\ (/\ rr.op = "save" /\ rr.name = "save"
              /\ rr.pc \in {"awaitQuery", "awaitAfter", "runResolved"}) =>
               /\ rr.updates = 0
               /\ Cardinality(Executes(rr)) = 1
               /\ \A i \in Executes(rr) : rr.log[i].saw.query = "save"]_vars

\* Both calls have handed their INSERT to the executor, and neither has
\* been answered.
SaveTwiceWitness ==
  /\ \A c \in TwoCallers :
       /\ runs[c].op = "save"
       /\ runs[c].name = "save"
       /\ runs[c].pc = "awaitQuery"
       /\ \E i \in DOMAIN runs[c].log : runs[c].log[i].step = "execute"
  /\ ~entity.exists

(***************************************************************************)
(* C39: hook chains are shared neither between Queries nor between         *)
(* configurations. The Queries of all configurations refer to chains that  *)
(* are all different; the chain of each Query holds the callbacks that     *)
(* were added through its own configuration since they were last flushed;  *)
(* an addHook or a flushHooks of one configuration leaves every chain of   *)
(* every other configuration as it was; and an operation run through a     *)
(* configuration invokes the callbacks added through that configuration.   *)
(***************************************************************************)
HookChainsNotShared ==
  /\ [](/\ \A k, j \in ConfigNames : \A n, m \in DefaultQueryNames :
             (conf[k].constructed /\ conf[j].constructed /\ <<k, n>> # <<j, m>>) =>
               conf[k].queries[n] # conf[j].queries[m]
        /\ \A k \in ConfigNames : \A n \in DefaultQueryNames :
             conf[k].constructed => hooks[conf[k].queries[n]] = added[k][n]
        /\ last.op = "run" => last.invoked = added[last.via][last.a1])
  /\ [][\A k, j \in ConfigNames :
          (/\ last'.op \in {"addHook", "flushHooks"}
           /\ last'.via = k
           /\ j # k
           /\ conf[j].constructed) =>
            \A n \in DefaultQueryNames :
              hooks'[conf'[j].queries[n]] = hooks[conf[j].queries[n]]]_vars

\* A hook was added to the save Query through one configuration, and a save
\* run through the other configuration has invoked no hook.
HookChainsWitness ==
  /\ \A k \in ConfigNames : conf[k].constructed
  /\ added["A"]["save"].before = <<"syncOk">>
  /\ hooks[conf["A"].queries["save"]].before = <<"syncOk">>
  /\ last.op = "run"
  /\ last.via = "B"
  /\ last.a1 = "save"
  /\ last.invoked = NewHooks

====
